---------------------------- MODULE Spec2Model ----------------------------
(***************************************************************************)
(* A model of ShaderProj, a stand-alone player for Shadertoy programs.     *)
(*                                                                         *)
(* The module holds three specifications over one set of variables:        *)
(*   Spec          the application: main()'s start-up is the initial       *)
(*                 state, the actions are the callbacks of                 *)
(*                 VulkanApp::RunMessageLoop and the final Shutdown;       *)
(*   SpecProgram   ShProgram::Load and ShRenderpass::CreateBindingSets on  *)
(*                 a description file drawn from a bounded set;            *)
(*   SpecCompile   CompileShader and its on-disk artifact cache.           *)
(*                                                                         *)
(* Times are counted in ticks of a quarter of a second, so that the        *)
(* transition window of 0.5 s is 2 ticks.  Pass, parity, channel and pool  *)
(* indices are zero-based as in the source; a C++ vector is a sequence,    *)
(* whose element i of the source is element i + 1 here.                    *)
(***************************************************************************)
EXTENDS Integers, Sequences, FiniteSets, TLC

(***************************************************************************)
(* Program constants.                                                      *)
(***************************************************************************)
c_MaxPassInputs == 4
c_MaxPasses == 4
c_HistoryLength == 2
c_RenderImageCount == (c_MaxPasses + 1) * c_HistoryLength
\* DeviceCreationParameters::swapChainImageCount
swapChainImageCount == 3
\* const double transitionTime = 0.5, in ticks of 0.25 s
transitionTime == 2
\* ScriptEntry::duration = 1.0, in ticks of 0.25 s
DefaultDuration == 4

(***************************************************************************)
(* Bounds of the model.                                                    *)
(***************************************************************************)
\* resources created one after the other (SpecResource)
MaxResources == 3
\* elements of the array in the script file (SpecScript)
MaxScriptLen == 3
\* largest value of the --interval option (SpecScript)
MaxInterval == 2
\* nodes in the "renderpass" array of a description file (SpecProgram)
MaxNodes == 3
\* largest time step, in ticks, that glfwGetTime() yields between two frames
MaxDt == 2
\* frames rendered since the last reset (m_FrameIndex is an int)
MaxFrameIndex == 3
\* times the pool images are created in one run
MaxPoolCreations == 2
\* key events delivered by one glfwPollEvents()
MaxKeysPerPoll == 1
\* clock values of the file system (SpecCompile)
MaxClock == 2
\* creations that the device refuses in one call (SpecShaderObjects)
MaxFailures == 1
\* arguments on the command line (SpecMain)
MaxArgs == 2
\* the values of maxFramesInFlight above 0 (SpecFrames)
MaxFramesInFlight == 2
MaxLoadNodes == 6

Channels == 0 .. (c_MaxPassInputs - 1)
Parities == 0 .. (c_HistoryLength - 1)
PoolSlots == 0 .. (c_RenderImageCount - 1)

Min(a, b) == IF a < b THEN a ELSE b
Max(a, b) == IF a > b THEN a ELSE b

(***************************************************************************)
(* Description files.  A node of the "renderpass" array has a type, the id *)
(* of its first output and a list of inputs; an input has a channel, a     *)
(* type, an id (buffer inputs) and a file path, of which only whether a    *)
(* texture was loaded from it matters.                                     *)
(***************************************************************************)
Input(channel, type, id, loaded) ==
    [channel |-> channel, type |-> type, id |-> id, loaded |-> loaded]

Node(type, outputId, inputs) ==
    [type |-> type, outputId |-> outputId, inputs |-> inputs]

InputLists ==
    { << >>,
      << Input(0, "buffer", "A", FALSE) >>,
      << Input(1, "buffer", "B", FALSE), Input(0, "texture", "", TRUE) >>,
      << Input(2, "buffer", "C", FALSE), Input(3, "cubemap", "", FALSE) >>,
      << Input(0, "volume", "", FALSE), Input(3, "buffer", "A", FALSE),
         Input(1, "texture", "", FALSE) >> }

NodeSet ==
    { Node("buffer", o, i) : o \in {"A", "B"}, i \in InputLists }
    \cup { Node("image", "I", i) : i \in InputLists }
    \cup { Node("common", "", << >>), Node("sound", "S", << >>) }

SeqsUpTo(S, n) == UNION { [1 .. k -> S] : k \in 0 .. n }

\* a description file: whether it can be opened, and its "renderpass" array
\* (a file that does not parse leaves the root null: an empty array)
Descriptions ==
    { [opened |-> TRUE, renderpass |-> r] : r \in SeqsUpTo(NodeSet, MaxNodes) }
    \cup { [opened |-> FALSE, renderpass |-> << >>] }

(***************************************************************************)
(* ShRenderpass and ShProgram.                                             *)
(***************************************************************************)
ShRenderpass(declaration) ==
    [m_OutputId |-> declaration.outputId, m_Declaration |-> declaration]

NoPass == [m_OutputId |-> "", m_Declaration |-> Node("none", "", << >>)]

\* the mutant of LoadNodes: a buffer pass goes to the front of the passes
RECURSIVE LoadNodesBufferFirst(_, _, _, _)
LoadNodesBufferFirst(nodes, i, passes, imagePass) ==
    IF i > Len(nodes) THEN [m_Passes |-> passes, imagePass |-> imagePass]
    ELSE LET node == nodes[i] IN
         IF node.type = "buffer" \/ node.type = "image"
         THEN IF node.type = "image"
              THEN LoadNodesBufferFirst(nodes, i + 1, passes, ShRenderpass(node))
              ELSE LoadNodesBufferFirst(nodes, i + 1,
                      << ShRenderpass(node) >> \o passes, imagePass)
         ELSE LoadNodesBufferFirst(nodes, i + 1, passes, imagePass)

\* the loop of ShProgram::Load over the nodes from position i on
RECURSIVE LoadNodes(_, _, _, _)
LoadNodes(nodes, i, passes, imagePass) ==
    IF i > Len(nodes) THEN [m_Passes |-> passes, imagePass |-> imagePass]
    ELSE LET node == nodes[i] IN
         IF node.type = "buffer" \/ node.type = "image"
         THEN IF node.type = "image"
              THEN LoadNodes(nodes, i + 1, passes, ShRenderpass(node))
              ELSE LoadNodes(nodes, i + 1, Append(passes, ShRenderpass(node)), imagePass)
         ELSE LoadNodes(nodes, i + 1, passes, imagePass)

\* ShProgram::Load: the result, the pass list and the index of the image pass
Load(description) ==
    IF ~description.opened
    THEN [ok |-> FALSE, m_Passes |-> << >>, m_ImagePassIndex |-> 0]
    ELSE LET r == LoadNodes(description.renderpass, 1, << >>, NoPass) IN
         IF r.imagePass = NoPass
         THEN [ok |-> FALSE, m_Passes |-> r.m_Passes, m_ImagePassIndex |-> 0]
         ELSE [ok |-> TRUE, m_Passes |-> Append(r.m_Passes, r.imagePass),
               m_ImagePassIndex |-> Len(r.m_Passes)]


(***************************************************************************)
(* Image views as they are written into a binding table (descriptor set).  *)
(* A view of a pool image names its slot and the handle of the image it    *)
(* was created for; handle 0 is the null handle.                           *)
(***************************************************************************)
View(kind, slot, handle) == [kind |-> kind, slot |-> slot, handle |-> handle]
NullView == View("null", -1, 0)
dummyTexture == View("dummyTexture", -1, 0)
dummyCubemap == View("dummyCubemap", -1, 0)
dummyVolume == View("dummyVolume", -1, 0)
StaticView(channel) == View("static", channel, 0)
PoolView(images, slot) ==
    IF images[slot] = 0 THEN NullView ELSE View("pool", slot, images[slot])

\* ShRenderpass::LoadTextures: the channels that hold a loaded static image
StaticInputs(pass) ==
    [c \in Channels |->
        \E k \in 1 .. Len(pass.m_Declaration.inputs) :
            LET node == pass.m_Declaration.inputs[k] IN
                /\ node.channel = c
                /\ node.loaded
                /\ node.type \in {"texture", "volume"}]

\* the loop "for (auto& pass : passes)" of CreateBindingSets from pass index
\* passIndex on: the index of the first pass whose output id is bufferId,
\* or -1 when there is none
RECURSIVE FindOutput(_, _, _)
FindOutput(passes, bufferId, passIndex) ==
    IF passIndex >= Len(passes) THEN -1
    ELSE IF passes[passIndex + 1].m_OutputId = bufferId THEN passIndex
    ELSE FindOutput(passes, bufferId, passIndex + 1)

\* the mutant of SourceFrame: every buffer input reads the parity being drawn
SourceFrameSame(passIndex, outputIndex, frame) == frame

\* the mutant of SourceFrame: the parities of the two cases are exchanged
SourceFrameSwapped(passIndex, outputIndex, frame) ==
    IF passIndex = outputIndex THEN frame ELSE 1 - frame

\* int sourceFrame = (pass.get() == this) ? !frame : frame
SourceFrame(passIndex, outputIndex, frame) ==
    IF passIndex = outputIndex THEN 1 - frame ELSE frame

\* the mutant of InputView: an id that no pass puts out is taken for the
\* output of the first pass
InputViewUnresolvedFirstPass(images, passes, outputIndex, frame, node) ==
    LET this == passes[outputIndex + 1] IN
    IF StaticInputs(this)[node.channel]
    THEN [imageView |-> StaticView(node.channel), inputSize |-> 2]
    ELSE IF node.type = "cubemap"
    THEN [imageView |-> dummyCubemap, inputSize |-> 0]
    ELSE IF node.type = "volume"
    THEN [imageView |-> dummyVolume, inputSize |-> 0]
    ELSE IF node.type = "buffer"
    THEN LET passIndex == Max(0, FindOutput(passes, node.id, 0)) IN
         [imageView |->
             PoolView(images,
                 passIndex * 2 + SourceFrame(passIndex, outputIndex, frame)),
          inputSize |-> 1]
    ELSE [imageView |-> NullView, inputSize |-> 0]

\* the view and the size that one input node resolves to
InputView(images, passes, outputIndex, frame, node) ==
    LET this == passes[outputIndex + 1] IN
    IF StaticInputs(this)[node.channel]
    THEN [imageView |-> StaticView(node.channel), inputSize |-> 2]
    ELSE IF node.type = "cubemap"
    THEN [imageView |-> dummyCubemap, inputSize |-> 0]
    ELSE IF node.type = "volume"
    THEN [imageView |-> dummyVolume, inputSize |-> 0]
    ELSE IF node.type = "buffer"
    THEN LET passIndex == FindOutput(passes, node.id, 0) IN
         IF passIndex < 0
         THEN [imageView |-> NullView, inputSize |-> 0]
         ELSE [imageView |->
                  PoolView(images,
                      passIndex * 2 + SourceFrame(passIndex, outputIndex, frame)),
               inputSize |-> 1]
    ELSE [imageView |-> NullView, inputSize |-> 0]

\* the loop over m_Declaration["inputs"] from input k on: a later node of
\* the same channel overwrites what an earlier one has set
RECURSIVE BindInputs(_, _, _, _, _, _)
BindInputs(images, passes, outputIndex, frame, k, acc) ==
    LET inputs == passes[outputIndex + 1].m_Declaration.inputs IN
    IF k > Len(inputs) THEN acc
    ELSE LET node == inputs[k]
             r == InputView(images, passes, outputIndex, frame, node)
         IN  BindInputs(images, passes, outputIndex, frame, k + 1,
                [imageInfos |->
                    IF r.imageView # NullView
                    THEN [acc.imageInfos EXCEPT ![node.channel] = r.imageView]
                    ELSE acc.imageInfos,
                 m_Push |-> [acc.m_Push EXCEPT ![node.channel] = r.inputSize]])

\* ShRenderpass::CreateBindingSets of pass outputIndex of passes: both
\* binding tables, the render target slots and views, and the push data
\* (per channel: 0 no resolution, 1 the window's, 2 a static image's)
CreateBindingSets(images, passes, outputIndex) ==
    LET bound(frame) ==
            BindInputs(images, passes, outputIndex, frame, 1,
                [imageInfos |-> [c \in Channels |-> dummyTexture],
                 m_Push |-> [c \in Channels |-> 0]])
    IN  [m_DescriptorSets |-> [frame \in Parities |-> bound(frame).imageInfos],
         m_RenderTargetIndices |-> [frame \in Parities |-> outputIndex * 2 + frame],
         m_RenderTargetViews |->
            [frame \in Parities |-> PoolView(images, outputIndex * 2 + frame)],
         m_Push |-> bound(1).m_Push]

\* the loop of CreateBuffersAndBindings over the passes of one program
ProgramBindings(images, passes) ==
    [i \in 0 .. (Len(passes) - 1) |-> CreateBindingSets(images, passes, i)]

(***************************************************************************)
(* The state.                                                              *)
(*                                                                         *)
(* pc is the position of main(): "main" before the programs are loaded     *)
(* (SpecProgram), then the steps of one iteration of RunMessageLoop        *)
(* ("poll", "animate", "begin", "render", "present"), "shutdown" after the *)
(* loop and "done" after Shutdown.                                         *)
(*                                                                         *)
(* bindings[p][i] is what CreateBindingSets left in pass i of program p.   *)
(* cmdBuf is the command buffer of the frame being recorded; gpuLayout and *)
(* gpuContent are the layout each image really is in on the device and     *)
(* what its content is ("undefined", "cleared", or the name of the program *)
(* whose pass drew it): the device runs a command buffer when Present      *)
(* submits it.                                                             *)
(***************************************************************************)
VARIABLES
    pc, description, m_Programs, bindings,
    m_Script, m_ScriptIndex, m_ActiveProgram, m_CurrentDuration,
    m_CurrentTime, m_CurrentTimeDelta, m_FrameIndex, m_Paused, m_ResetRequired,
    m_BufferLayoutInitd, m_StaticResourcesInitd,
    m_Images, poolCreations, m_SwapChainFramebuffers,
    windowWidth, m_WindowVisible, windowShouldClose, keysPolled,
    cmdBuf, gpuLayout, gpuContent,
    m_SwapChainLayoutInitd, m_SwapChainIndex,
    shaderFile, outputFile, clock, compiled,
    resources,
    scriptFile, interval, projectPath,
    m_FragmentShader, m_Pipeline, m_Framebuffers, m_PassRenderPass, deviceFailed,
    argv, startup, exitCode,
    keyEvent,
    maxFramesInFlight, m_LoopingFrameIndex, m_FencesSignaled, inFlight, destroyedInUse

programVars == << description, m_Programs, bindings >>
playlistVars ==
    << m_Script, m_ScriptIndex, m_ActiveProgram, m_CurrentDuration,
       m_CurrentTime, m_CurrentTimeDelta, m_FrameIndex, m_Paused, m_ResetRequired >>
\* m_SwapChainFramebuffers holds for each framebuffer the swap-chain image of
\* its attachment and whether the swap chain of that image is still alive
poolVars ==
    << m_BufferLayoutInitd, m_StaticResourcesInitd, m_Images, poolCreations,
       m_SwapChainFramebuffers >>
\* keyEvent is the key that was pressed since the last Animate
windowVars == << windowWidth, m_WindowVisible, windowShouldClose, keysPolled, keyEvent >>
gpuVars == << cmdBuf, gpuLayout, gpuContent >>
\* inFlight[slot] is the pool (the number of its creation) that the frame
\* submitted with fence slot references while that fence has not been waited
\* for, and destroyedInUse tells that pool images were destroyed while such a
\* frame referenced them
frameVars ==
    << maxFramesInFlight, m_LoopingFrameIndex, m_FencesSignaled, inFlight,
       destroyedInUse >>
swapChainVars == << m_SwapChainLayoutInitd, m_SwapChainIndex, frameVars >>
compileVars == << shaderFile, outputFile, clock, compiled >>
resourceVars == << resources >>
scriptVars == << scriptFile, interval, projectPath >>
shaderVars ==
    << m_FragmentShader, m_Pipeline, m_Framebuffers, m_PassRenderPass, deviceFailed >>
\* the variables that the model of the message loop does not follow
mainVars == << argv, startup, exitCode >>
otherVars == << compileVars, resourceVars, scriptVars, shaderVars, mainVars >>

vars ==
    << pc, programVars, playlistVars, poolVars, windowVars, gpuVars, swapChainVars,
       otherVars >>

(***************************************************************************)
(* Images and their states.                                                *)
(***************************************************************************)
m_DummyTexture == -1
m_DummyCubemap == -2
m_DummyVolume == -3
DummyImages == { m_DummyTexture, m_DummyCubemap, m_DummyVolume }
\* the image of a command that names none
NoImage == m_DummyVolume - 1
\* the images of the swap chain: GetSwapChainImage(index) follows the pool
SwapChainIndices == 0 .. (swapChainImageCount - 1)
GetSwapChainImage(index) == c_RenderImageCount + index
SwapChainImages == { GetSwapChainImage(index) : index \in SwapChainIndices }
ImageIds == PoolSlots \cup DummyImages \cup SwapChainImages

NullImages == [s \in PoolSlots |-> 0]

\* the mutant of DestroyedLayout: the images stay on the device
DestroyedLayoutKept(layout) == layout

\* ShaderProj::BackBufferResizing: DestroyCommittedImage nulls every handle
DestroyedLayout(layout) ==
    [i \in ImageIds |-> IF i \in PoolSlots THEN "None" ELSE layout[i]]

\* the loop of CreateBuffersAndBindings that creates the pool images: every
\* slot gets a new image, whose handle is the number of this creation
CreateImages(creation) == [s \in PoolSlots |-> creation]

\* the loop of CreateBuffersAndBindings over programs and passes
AllBindings(images, programs) ==
    [p \in 0 .. (Len(programs) - 1) |-> ProgramBindings(images, programs[p + 1].m_Passes)]

(***************************************************************************)
(* Commands recorded into the command buffer.                              *)
(***************************************************************************)
NoViews == [c \in Channels |-> NullView]

\* a framebuffer of the swap chain: the image of its attachment, and whether
\* the swap chain that the image belongs to exists
Framebuffer(attachment, live) == [attachment |-> attachment, live |-> live]
NoFramebuffer == Framebuffer(NoImage, FALSE)

\* the mutant of CreateSwapChainFramebuffers: no framebuffer is created
CreateSwapChainFramebuffersNone(framebuffers) == framebuffers

\* the end of CreateBuffersAndBindings: a framebuffer for every image of the
\* swap chain is pushed onto m_SwapChainFramebuffers
CreateSwapChainFramebuffers(framebuffers) ==
    framebuffers
    \o [index \in 1 .. swapChainImageCount |->
           Framebuffer(GetSwapChainImage(index - 1), TRUE)]

\* destroySwapChain: the images of the attachments are gone
DestroySwapChain(framebuffers) ==
    [index \in DOMAIN framebuffers |->
        Framebuffer(framebuffers[index].attachment, FALSE)]

\* .setFramebuffer(m_SwapChainFramebuffers[swapChainIndex])
SwapChainFramebuffer(framebuffers, swapChainIndex) ==
    IF swapChainIndex + 1 \in DOMAIN framebuffers
    THEN framebuffers[swapChainIndex + 1]
    ELSE NoFramebuffer

Cmd(op, image, before, after) ==
    [op |-> op, image |-> image, before |-> before, after |-> after,
     program |-> "", pass |-> -1, frame |-> -1, views |-> NoViews,
     target |-> NullView, iTime |-> 0, iFrame |-> 0, factor |-> 0,
     framebuffer |-> NoFramebuffer]

\* ImageBarrier: one barrier from the layout of before to the layout of after
ImageBarrier(image, before, after) == Cmd("barrier", image, before, after)

\* the mutant of ClearImage: the barriers without the clear between them
ClearImageWithoutClear(image, stateBefore) ==
    << ImageBarrier(image, stateBefore, "TransferDst"),
       ImageBarrier(image, "TransferDst", "ShaderResource") >>

\* ClearImage: barrier to TransferDst, clear, barrier to ShaderResource
ClearImage(image, stateBefore) ==
    << ImageBarrier(image, stateBefore, "TransferDst"),
       Cmd("clear", image, "", ""),
       ImageBarrier(image, "TransferDst", "ShaderResource") >>

\* vkCmdBuf.updateBuffer(m_ConstantBuffer.buffer, ...) with the uniforms
UpdateBuffer(iTime, iFrame) ==
    [Cmd("updateBuffer", NoImage, "", "") EXCEPT !.iTime = iTime, !.iFrame = iFrame]

\* the draw of one pass: the binding table and the framebuffer of the parity
DrawPass(program, pass, frame, binding) ==
    [Cmd("draw", binding.m_RenderTargetIndices[frame], "", "") EXCEPT
        !.program = program, !.pass = pass, !.frame = frame,
        !.views = binding.m_DescriptorSets[frame],
        !.target = binding.m_RenderTargetViews[frame]]

\* the draw of the composite: the blit binding table of pool slot
\* finalBufferIndex, written for the image of that slot, and the factor
DrawBlit(program, finalBufferIndex, images, factor, framebuffer) ==
    [Cmd("blit", finalBufferIndex, "", "") EXCEPT
        !.program = program,
        !.framebuffer = framebuffer,
        !.views = [NoViews EXCEPT ![0] = PoolView(images, finalBufferIndex)],
        !.factor = factor]

(***************************************************************************)
(* The device: what a submitted command buffer does to the images.         *)
(***************************************************************************)
Gpu(layout, content) == [layout |-> layout, content |-> content]

\* the last of the first n commands of cmds that has one of the operations
\* ops on image, or 0
LastCmd(cmds, n, image, ops) ==
    LET written == { k \in 1 .. n : cmds[k].image = image /\ cmds[k].op \in ops } IN
    IF written = { } THEN 0 ELSE CHOOSE k \in written : \A j \in written : j <= k

\* the device after it has executed the first n commands of cmds in order:
\* a barrier leaves its image in the state it names, a clear and a draw
\* leave their content in the image they write
Exec(gpu, cmds, n) ==
    Gpu([i \in ImageIds |->
            LET k == LastCmd(cmds, n, i, {"barrier"}) IN
            IF k = 0 THEN gpu.layout[i] ELSE cmds[k].after],
        [i \in ImageIds |->
            LET k == LastCmd(cmds, n, i, {"clear", "draw"}) IN
            IF k = 0 THEN gpu.content[i]
            ELSE IF cmds[k].op = "clear" THEN "cleared" ELSE cmds[k].program])

(***************************************************************************)
(* The playlist.                                                           *)
(***************************************************************************)
ScriptEntry(programName, duration) ==
    [programName |-> programName, programIndex |-> -1, duration |-> duration]

\* the inner loop of SetScript: the index of the program called name among
\* programs from index on, or -1
RECURSIVE FindProgram(_, _, _)
FindProgram(programs, name, index) ==
    IF index >= Len(programs) THEN -1
    ELSE IF programs[index + 1].m_Name = name THEN index
    ELSE FindProgram(programs, name, index + 1)

\* the outer loop of SetScript from entry k of script on
RECURSIVE SetScriptEntries(_, _, _, _, _)
SetScriptEntries(programs, script, baseInterval, k, acc) ==
    IF k > Len(script) THEN acc
    ELSE LET index == FindProgram(programs, script[k].programName, 0)
             entry == [script[k] EXCEPT !.duration = @ * baseInterval,
                                        !.programIndex = index]
         IN  SetScriptEntries(programs, script, baseInterval, k + 1,
                IF index < 0 THEN acc ELSE Append(acc, entry))

\* ShaderProj::SetScript on a new ShaderProj: the members it leaves
SetScript(programs, script, baseInterval) ==
    LET entries == SetScriptEntries(programs, script, baseInterval, 1, << >>) IN
    IF entries = << >>
    THEN [ok |-> FALSE, m_Script |-> entries, m_ActiveProgram |-> 0,
          m_CurrentDuration |-> 0]
    ELSE [ok |-> TRUE, m_Script |-> entries,
          m_ActiveProgram |-> entries[1].programIndex,
          m_CurrentDuration |-> entries[1].duration]

\* the mutant of NextIndex: no wrap-around after the last entry
NextIndexSaturating(scriptIndex, size) ==
    IF scriptIndex + 1 >= size THEN size - 1 ELSE scriptIndex + 1

\* m_ScriptIndex = (m_ScriptIndex + 1) % int(m_Script.size())
NextIndex(scriptIndex, size) == (scriptIndex + 1) % size

\* --m_ScriptIndex; if (m_ScriptIndex < 0) m_ScriptIndex = size - 1
PreviousIndex(scriptIndex, size) ==
    IF scriptIndex - 1 < 0 THEN size - 1 ELSE scriptIndex - 1

\* the members NextProgram and PreviousProgram assign when the script index
\* becomes index
SelectEntry(index) ==
    /\ m_ScriptIndex' = index
    /\ m_ActiveProgram' = m_Script[index + 1].programIndex
    /\ m_CurrentDuration' = m_Script[index + 1].duration
    /\ m_ResetRequired' = TRUE

\* ShaderProj::NextProgram
NextProgram ==
    IF m_Script = << >>
    THEN UNCHANGED << m_ScriptIndex, m_ActiveProgram, m_CurrentDuration, m_ResetRequired >>
    ELSE SelectEntry(NextIndex(m_ScriptIndex, Len(m_Script)))

\* ShaderProj::PreviousProgram
PreviousProgram ==
    IF m_Script = << >>
    THEN UNCHANGED << m_ScriptIndex, m_ActiveProgram, m_CurrentDuration, m_ResetRequired >>
    ELSE SelectEntry(PreviousIndex(m_ScriptIndex, Len(m_Script)))

(***************************************************************************)
(* main(): the projects the application is started on.  A project is the   *)
(* script that LoadScript read, the interval of the command line, and the  *)
(* description file of every program the script names, in the order in     *)
(* which main() visits the names.                                          *)
(***************************************************************************)
FooDescription ==
    [opened |-> TRUE, renderpass |->
        << Node("buffer", "A", << Input(0, "buffer", "A", FALSE) >>),
           Node("common", "", << >>),
           Node("image", "I", << Input(0, "buffer", "A", FALSE) >>) >>]

BarDescription ==
    [opened |-> TRUE, renderpass |->
        << Node("image", "I", << Input(0, "buffer", "I", FALSE),
                                 Input(1, "texture", "", TRUE) >>) >>]

\* a description without an image pass: Load refuses it
BazDescription ==
    [opened |-> TRUE, renderpass |-> << Node("buffer", "A", << >>) >>]

Project(names, descriptions, script, baseInterval) ==
    [names |-> names, descriptions |-> descriptions, script |-> script,
     interval |-> baseInterval]

\* a project of one program that plays without a time limit
SingleProject ==
    Project(<< "bar" >>, << BarDescription >>,
            << ScriptEntry("bar", DefaultDuration) >>, 0)

Projects ==
    { Project(<< "foo", "bar", "baz" >>,
              << FooDescription, BarDescription, BazDescription >>,
              << ScriptEntry("foo", DefaultDuration), ScriptEntry("baz", DefaultDuration),
                 ScriptEntry("bar", 6), ScriptEntry("foo", 2) >>,
              1),
      SingleProject }

\* the loop of main() that loads the programs, from name k on
RECURSIVE MainLoadPrograms(_, _, _, _)
MainLoadPrograms(names, descriptions, k, programs) ==
    IF k > Len(names) THEN programs
    ELSE LET program == Load(descriptions[k]) IN
         MainLoadPrograms(names, descriptions, k + 1,
            IF program.ok
            THEN Append(programs,
                    [m_Name |-> names[k], m_Passes |-> program.m_Passes,
                     m_ImagePassIndex |-> program.m_ImagePassIndex])
            ELSE programs)

NoDescription == [opened |-> FALSE, renderpass |-> << >>]
NoScriptFile == [opened |-> FALSE, root |-> << >>]
NoFile == [exists |-> FALSE, time |-> 0, contents |-> "", readable |-> FALSE]
NotCompiled == [called |-> FALSE, programOk |-> FALSE]
NoBindings == AllBindings(NullImages, << >>)
NoKeyEvent == [key |-> "NONE", scriptIndex |-> 0, currentDuration |-> 0,
               resetRequired |-> FALSE]
NoFailures == [modules |-> { }, pipelines |-> { }]
InitialLayout == [i \in ImageIds |-> IF i \in PoolSlots THEN "None" ELSE "Undefined"]
InitialContent == [i \in ImageIds |-> "undefined"]

\* VulkanApp::CreateDeviceAndSwapChain: maxFramesInFlight + 1 fences, none
\* of them submitted
NoFrame == 0
FenceSlots(framesInFlight) == 1 .. (framesInFlight + 1)
InitFrames(framesInFlight) ==
    /\ maxFramesInFlight = framesInFlight
    /\ m_LoopingFrameIndex = 0
    /\ m_FencesSignaled = [slot \in FenceSlots(framesInFlight) |-> FALSE]
    /\ inFlight = [slot \in FenceSlots(framesInFlight) |-> NoFrame]
    /\ destroyedInUse = FALSE

\* the members of a constructed ShaderProj and VulkanApp, and the device
InitApp ==
    /\ bindings = NoBindings
    /\ m_ScriptIndex = 0
    /\ m_CurrentTime = 0
    /\ m_CurrentTimeDelta = 0
    /\ m_FrameIndex = 0
    /\ m_Paused = FALSE
    /\ m_ResetRequired = TRUE
    /\ m_BufferLayoutInitd = FALSE
    /\ m_StaticResourcesInitd = FALSE
    /\ m_Images = NullImages
    /\ m_SwapChainFramebuffers = << >>
    /\ poolCreations = 0
    /\ windowWidth = 1
    /\ m_WindowVisible = TRUE
    /\ windowShouldClose = FALSE
    /\ keysPolled = 0
    /\ keyEvent = NoKeyEvent
    /\ cmdBuf = << >>
    /\ gpuLayout = InitialLayout
    /\ gpuContent = InitialContent
    /\ m_SwapChainLayoutInitd = << >>
    /\ m_SwapChainIndex = 0
    /\ resources = << >>
    /\ m_FragmentShader = { }
    /\ m_Pipeline = { }
    /\ m_Framebuffers = { }
    /\ m_PassRenderPass = FALSE
    /\ deviceFailed = NoFailures

\* no device has been created
InitFramesUnused == InitFrames(0)

\* main() has not returned; the command line and what the start-up finds are
\* followed in SpecMain only
NotExited == -1
InitMainUnused ==
    /\ argv = << >>
    /\ startup = [loadShaders |-> TRUE, initVulkan |-> TRUE]
    /\ exitCode = NotExited

InitCompileUnused ==
    /\ shaderFile = NoFile
    /\ outputFile = NoFile
    /\ clock = 0
    /\ compiled = NotCompiled

InitScriptUnused ==
    /\ scriptFile = NoScriptFile
    /\ interval = 1
    /\ projectPath = { }
    /\ InitMainUnused

\* main() up to RunMessageLoop, on a project that loads a program
MainFrames(project, framesInFlight) ==
    LET programs == MainLoadPrograms(project.names, project.descriptions, 1, << >>)
        script == SetScript(programs, project.script, project.interval)
    IN  /\ programs # << >>
        /\ pc = "poll"
        /\ description = NoDescription
        /\ m_Programs = programs
        /\ m_Script = script.m_Script
        /\ m_ActiveProgram = script.m_ActiveProgram
        /\ m_CurrentDuration = script.m_CurrentDuration
        /\ InitApp
        /\ InitFrames(framesInFlight)
        /\ InitCompileUnused
        /\ InitScriptUnused

\* InitVulkan with vertical sync on a system other than Windows sets
\* maxFramesInFlight to 0
Main(project) == MainFrames(project, 0)

Init == \E project \in Projects : Main(project)

(***************************************************************************)
(* ShaderProj::Render: the commands of one frame.                          *)
(***************************************************************************)
StaticClears(staticResourcesInitd) ==
    IF staticResourcesInitd THEN << >>
    ELSE ClearImage(m_DummyTexture, "Undefined")
         \o ClearImage(m_DummyCubemap, "Undefined")
         \o ClearImage(m_DummyVolume, "Undefined")

RECURSIVE ClearBuffers(_, _)
ClearBuffers(slot, bufferLayoutInitd) ==
    IF slot >= c_RenderImageCount THEN << >>
    ELSE ClearImage(slot, IF bufferLayoutInitd THEN "ShaderResource" ELSE "Undefined")
         \o ClearBuffers(slot + 1, bufferLayoutInitd)

\* the mutant of PoolClears: new pool images are left as they were created
NoPoolClears(bufferLayoutInitd) == << >>

\* if (!m_BufferLayoutInitd) every pool image is cleared
PoolClears(bufferLayoutInitd) ==
    IF bufferLayoutInitd THEN << >> ELSE ClearBuffers(0, bufferLayoutInitd)

\* the mutant of ExecutePasses: the loop leaves out the last pass
RECURSIVE ExecutePassesButLast(_, _, _, _, _)
ExecutePassesButLast(program, passBindings, historyIndex, i, n) ==
    IF i >= n - 1 THEN << >>
    ELSE LET vkDstImage == passBindings[i].m_RenderTargetIndices[historyIndex] IN
         << ImageBarrier(vkDstImage, "ShaderResource", "RenderTarget"),
            DrawPass(program, i, historyIndex, passBindings[i]),
            ImageBarrier(vkDstImage, "RenderTarget", "ShaderResource") >>
         \o ExecutePassesButLast(program, passBindings, historyIndex, i + 1, n)

\* the loop over the passes of the active program, from pass index i on
RECURSIVE ExecutePasses(_, _, _, _, _)
ExecutePasses(program, passBindings, historyIndex, i, n) ==
    IF i >= n THEN << >>
    ELSE LET vkDstImage == passBindings[i].m_RenderTargetIndices[historyIndex] IN
         << ImageBarrier(vkDstImage, "ShaderResource", "RenderTarget"),
            DrawPass(program, i, historyIndex, passBindings[i]),
            ImageBarrier(vkDstImage, "RenderTarget", "ShaderResource") >>
         \o ExecutePasses(program, passBindings, historyIndex, i + 1, n)

\* the mutant of DurationExceeded: the duration of an entry never ends
DurationExceededNever(currentTime, currentDuration) == FALSE

\* if (m_CurrentDuration > 0 && m_CurrentTime > m_CurrentDuration)
DurationExceeded(currentTime, currentDuration) ==
    currentDuration > 0 /\ currentTime > currentDuration

\* the mutant of HistoryIndex: every frame uses the first parity
HistoryIndexFirst(frameIndex) == 0

\* uint32_t historyIndex = m_FrameIndex % c_HistoryLength
HistoryIndex(frameIndex) == frameIndex % c_HistoryLength

\* the mutant of ResetCurrentTime: a reset keeps the accumulated time
KeepCurrentTime(resetRequired, currentTime) == currentTime

\* if (m_ResetRequired) m_CurrentTime = 0
ResetCurrentTime(resetRequired, currentTime) ==
    IF resetRequired THEN 0 ELSE currentTime

\* the mutant of Factor: the factor without the clamp to [0, 1]
FactorUnclamped(currentTime, currentDuration) ==
    IF currentDuration > 0
    THEN Min(currentTime, currentDuration - currentTime)
    ELSE transitionTime

\* the crossfade factor, as the numerator of a fraction over transitionTime
Factor(currentTime, currentDuration) ==
    IF currentDuration > 0
    THEN Max(0, Min(transitionTime, Min(currentTime, currentDuration - currentTime)))
    ELSE transitionTime

(***************************************************************************)
(* The operations of the message loop.                                     *)
(***************************************************************************)
\* device.waitIdle(): no submitted frame is pending any more
WaitIdle(frames) == [slot \in DOMAIN frames |-> NoFrame]

\* a frame that has been submitted and not waited for references images
InUse(frames, images) ==
    \E slot \in DOMAIN frames : frames[slot] # NoFrame /\ frames[slot] = images[0]

\* ShaderProj::BackBufferResizing: every pool image is destroyed; frames are
\* the frames in flight when it is called
BackBufferResizing(frames) ==
    /\ m_Images' = NullImages
    /\ m_SwapChainFramebuffers' = << >>
    /\ gpuLayout' = DestroyedLayout(gpuLayout)
    /\ destroyedInUse' = (destroyedInUse \/ InUse(frames, m_Images))

\* VulkanApp::ResizeSwapChain: destroySwapChain, then createSwapChain, whose
\* images are new
ResizeSwapChain(layout) ==
    [i \in ImageIds |-> IF i \in SwapChainImages THEN "Undefined" ELSE layout[i]]

\* BackBufferResizing, ResizeSwapChain and BackBufferResized, as
\* UpdateWindowSize and BeginFrame call them in a row: the pool images are
\* destroyed first, and destroySwapChain then waits for the device
BackBufferResized ==
    /\ m_Images' = NullImages
    \* m_SwapChainFramebuffers.clear(), then destroySwapChain
    /\ m_SwapChainFramebuffers' = DestroySwapChain(<< >>)
    /\ gpuLayout' = ResizeSwapChain(DestroyedLayout(gpuLayout))
    /\ destroyedInUse' = (destroyedInUse \/ InUse(inFlight, m_Images))
    /\ inFlight' = WaitIdle(inFlight)

\* the key callback is entered with key: keyEvent keeps the key and the entry
\* of the script that was current when it was pressed, or that several keys
\* were pressed
KeyEvent(key) ==
    IF keyEvent # NoKeyEvent THEN [NoKeyEvent EXCEPT !.key = "SEVERAL"]
    ELSE [key |-> key, scriptIndex |-> m_ScriptIndex,
          currentDuration |-> m_CurrentDuration, resetRequired |-> m_ResetRequired]

\* an event that destroys live pool images is taken a bounded number of times
MayDestroy == m_Images[0] = 0 \/ poolCreations < MaxPoolCreations

KeyboardUpdateQ ==
    /\ pc = "poll"
    /\ keysPolled < MaxKeysPerPoll
    /\ keysPolled' = keysPolled + 1
    /\ keyEvent' = KeyEvent("Q")
    /\ windowShouldClose' = TRUE
    /\ UNCHANGED << pc, programVars, playlistVars, poolVars, windowWidth,
                    m_WindowVisible, gpuVars, swapChainVars, otherVars >>

\* the R key; loadShaders is the result of ShaderProj::LoadShaders
KeyboardUpdateR(loadShaders) ==
    /\ pc = "poll"
    /\ keysPolled < MaxKeysPerPoll
    /\ keysPolled' = keysPolled + 1
    /\ keyEvent' = KeyEvent("R")
    /\ IF loadShaders
       THEN MayDestroy /\ BackBufferResizing(inFlight)
       ELSE UNCHANGED << m_Images, m_SwapChainFramebuffers, gpuLayout, destroyedInUse >>
    /\ m_ResetRequired' = TRUE
    /\ UNCHANGED << pc, programVars, m_Script, m_ScriptIndex, m_ActiveProgram,
                    m_CurrentDuration, m_CurrentTime, m_CurrentTimeDelta,
                    m_FrameIndex, m_Paused,
                    m_BufferLayoutInitd, m_StaticResourcesInitd, poolCreations,
                    windowWidth, m_WindowVisible, windowShouldClose,
                    cmdBuf, gpuContent, m_SwapChainLayoutInitd, m_SwapChainIndex,
                    maxFramesInFlight, m_LoopingFrameIndex, m_FencesSignaled,
                    inFlight, otherVars >>

KeyboardUpdateLeft ==
    /\ pc = "poll"
    /\ keysPolled < MaxKeysPerPoll
    /\ keysPolled' = keysPolled + 1
    /\ keyEvent' = KeyEvent("LEFT")
    /\ PreviousProgram
    /\ UNCHANGED << pc, programVars, m_Script, m_CurrentTime, m_CurrentTimeDelta,
                    m_FrameIndex, m_Paused, poolVars, windowWidth,
                    m_WindowVisible, windowShouldClose, gpuVars, swapChainVars, otherVars >>

KeyboardUpdateRight ==
    /\ pc = "poll"
    /\ keysPolled < MaxKeysPerPoll
    /\ keysPolled' = keysPolled + 1
    /\ keyEvent' = KeyEvent("RIGHT")
    /\ NextProgram
    /\ UNCHANGED << pc, programVars, m_Script, m_CurrentTime, m_CurrentTimeDelta,
                    m_FrameIndex, m_Paused, poolVars, windowWidth,
                    m_WindowVisible, windowShouldClose, gpuVars, swapChainVars, otherVars >>

KeyboardUpdateSpace ==
    /\ pc = "poll"
    /\ keysPolled < MaxKeysPerPoll
    /\ keysPolled' = keysPolled + 1
    /\ keyEvent' = KeyEvent("SPACE")
    /\ m_Paused' = ~m_Paused
    /\ UNCHANGED << pc, programVars, m_Script, m_ScriptIndex, m_ActiveProgram,
                    m_CurrentDuration, m_CurrentTime, m_CurrentTimeDelta,
                    m_FrameIndex, m_ResetRequired, poolVars, windowWidth,
                    m_WindowVisible, windowShouldClose, gpuVars, swapChainVars, otherVars >>

\* where the message loop continues after an iteration
LoopTop == IF windowShouldClose THEN "shutdown" ELSE "poll"

\* VulkanApp::UpdateWindowSize, ending glfwPollEvents; width is the size
\* that glfwGetWindowSize reports
UpdateWindowSize(width) ==
    /\ pc = "poll"
    /\ keysPolled' = 0
    /\ IF width = 0
       THEN /\ m_WindowVisible' = FALSE
            /\ pc' = LoopTop
            /\ UNCHANGED << windowWidth, m_Images, m_SwapChainFramebuffers, gpuLayout, m_SwapChainIndex,
                            inFlight, destroyedInUse >>
       ELSE /\ m_WindowVisible' = TRUE
            /\ pc' = "animate"
            /\ windowWidth' = width
            /\ IF windowWidth # width
               THEN MayDestroy /\ BackBufferResized /\ m_SwapChainIndex' = 0
               ELSE UNCHANGED << m_Images, m_SwapChainFramebuffers, gpuLayout, m_SwapChainIndex,
                                 inFlight, destroyedInUse >>
    /\ UNCHANGED << programVars, playlistVars, m_BufferLayoutInitd,
                    m_StaticResourcesInitd, poolCreations, windowShouldClose,
                    keyEvent, cmdBuf, gpuContent, m_SwapChainLayoutInitd,
                    maxFramesInFlight, m_LoopingFrameIndex, m_FencesSignaled,
                    otherVars >>

\* ShaderProj::Animate
Animate(fElapsedTimeSeconds) ==
    /\ pc = "animate"
    /\ pc' = "begin"
    /\ IF m_Paused
       THEN UNCHANGED playlistVars
       ELSE /\ m_CurrentTime' = m_CurrentTime + fElapsedTimeSeconds
            /\ m_CurrentTimeDelta' = fElapsedTimeSeconds
            /\ IF DurationExceeded(m_CurrentTime', m_CurrentDuration)
               THEN NextProgram
               ELSE UNCHANGED << m_ScriptIndex, m_ActiveProgram, m_CurrentDuration,
                                 m_ResetRequired >>
            /\ UNCHANGED << m_Script, m_FrameIndex, m_Paused >>
    /\ keyEvent' = NoKeyEvent
    /\ UNCHANGED << programVars, poolVars, windowWidth, m_WindowVisible,
                    windowShouldClose, keysPolled, gpuVars, swapChainVars, otherVars >>

\* VulkanApp::BeginFrame; lost tells whether acquiring the swap-chain image
\* first reported the swap chain out of date, and index is the image that
\* acquireNextImageKHR hands out in the end
BeginFrame(lost, index) ==
    /\ pc = "begin"
    /\ pc' = "render"
    /\ IF lost
       THEN MayDestroy /\ BackBufferResized
       ELSE UNCHANGED << m_Images, m_SwapChainFramebuffers, gpuLayout, inFlight, destroyedInUse >>
    /\ m_SwapChainIndex' = index
    /\ cmdBuf' = << >>
    /\ UNCHANGED << programVars, playlistVars, m_BufferLayoutInitd,
                    m_StaticResourcesInitd, poolCreations, windowVars,
                    gpuContent, m_SwapChainLayoutInitd,
                    maxFramesInFlight, m_LoopingFrameIndex, m_FencesSignaled,
                    otherVars >>

\* the state that the composite declares for the swap-chain image before
\* its first barrier
SwapChainStateBefore(swapChainLayoutInitd, swapChainIndex) ==
    IF swapChainLayoutInitd[swapChainIndex + 1] THEN "Present" ELSE "Undefined"

\* ShaderProj::Render records the frame into the current command buffer
Render ==
    LET create == m_Images[0] = 0
        images == IF create THEN CreateImages(poolCreations + 1) ELSE m_Images
        passBindings == IF create THEN AllBindings(images, m_Programs) ELSE bindings
        bufferLayoutInitd == IF create THEN FALSE ELSE m_BufferLayoutInitd
        swapChainLayoutInitd == IF create
                                THEN [i \in 1 .. swapChainImageCount |-> FALSE]
                                ELSE m_SwapChainLayoutInitd
        swapChainIndex == m_SwapChainIndex
        framebuffers == IF create
                        THEN CreateSwapChainFramebuffers(m_SwapChainFramebuffers)
                        ELSE m_SwapChainFramebuffers
        vkDstImage == GetSwapChainImage(swapChainIndex)
        frameIndex == IF m_ResetRequired THEN 0 ELSE m_FrameIndex
        currentTime == ResetCurrentTime(m_ResetRequired, m_CurrentTime)
        program == m_Programs[m_ActiveProgram + 1]
        historyIndex == HistoryIndex(frameIndex)
        finalBufferIndex == program.m_ImagePassIndex * c_HistoryLength + historyIndex
    IN  /\ pc = "render"
        /\ frameIndex < MaxFrameIndex
        /\ pc' = "present"
        /\ m_Images' = images
        /\ m_SwapChainFramebuffers' = framebuffers
        /\ bindings' = passBindings
        /\ poolCreations' = IF create THEN poolCreations + 1 ELSE poolCreations
        /\ gpuLayout' = IF create
                        THEN [i \in ImageIds |->
                                IF i \in PoolSlots THEN "Undefined" ELSE gpuLayout[i]]
                        ELSE gpuLayout
        /\ gpuContent' = IF create
                         THEN [i \in ImageIds |->
                                IF i \in PoolSlots THEN "undefined" ELSE gpuContent[i]]
                         ELSE gpuContent
        /\ m_StaticResourcesInitd' = TRUE
        /\ m_BufferLayoutInitd' = TRUE
        /\ m_ResetRequired' = FALSE
        /\ m_CurrentTime' = currentTime
        /\ cmdBuf' = cmdBuf
                     \o StaticClears(m_StaticResourcesInitd)
                     \o PoolClears(bufferLayoutInitd)
                     \o << UpdateBuffer(currentTime, frameIndex) >>
                     \o ExecutePasses(program.m_Name, passBindings[m_ActiveProgram],
                                      historyIndex, 0, Len(program.m_Passes))
                     \o << ImageBarrier(vkDstImage,
                                         SwapChainStateBefore(swapChainLayoutInitd,
                                                              swapChainIndex),
                                         "RenderTarget"),
                           DrawBlit(program.m_Name, finalBufferIndex, images,
                                    Factor(currentTime, m_CurrentDuration),
                                    SwapChainFramebuffer(framebuffers,
                                                         swapChainIndex)),
                           ImageBarrier(vkDstImage, "RenderTarget", "Present") >>
        /\ m_SwapChainLayoutInitd' =
               [swapChainLayoutInitd EXCEPT ![swapChainIndex + 1] = TRUE]
        /\ m_FrameIndex' = frameIndex + 1
        /\ UNCHANGED << description, m_Programs, m_Script, m_ScriptIndex,
                        m_ActiveProgram, m_CurrentDuration, m_CurrentTimeDelta,
                        m_Paused, windowVars, m_SwapChainIndex, frameVars, otherVars >>

\* the mutant of WaitForFences: Present does not wait
WaitForFencesNever(frames, signaled, slot) == frames

\* the end of Present: if (m_FencesSignaled[m_LoopingFrameIndex]) the fence
\* of the slot is waited for and reset
WaitForFences(frames, signaled, slot) ==
    IF signaled[slot] THEN [frames EXCEPT ![slot] = NoFrame] ELSE frames

\* VulkanApp::Present submits the command buffer; the device executes it
Present ==
    LET gpu == Exec(Gpu(gpuLayout, gpuContent), cmdBuf, Len(cmdBuf))
        \* m_GraphicsQueue.submit with the fence of the current slot
        submitted == [inFlight EXCEPT ![m_LoopingFrameIndex + 1] = m_Images[0]]
        signaled == [m_FencesSignaled EXCEPT ![m_LoopingFrameIndex + 1] = TRUE]
        \* the slot of the next frame, whose fence is waited for and reset
        next == (m_LoopingFrameIndex + 1) % (maxFramesInFlight + 1)
    IN
    /\ pc = "present"
    /\ pc' = LoopTop
    /\ gpuLayout' = gpu.layout
    /\ gpuContent' = gpu.content
    /\ cmdBuf' = << >>
    /\ m_FencesSignaled' = signaled
    /\ m_LoopingFrameIndex' = next
    /\ inFlight' = WaitForFences(submitted, signaled, next + 1)
    /\ UNCHANGED << programVars, playlistVars, poolVars, windowVars,
                    m_SwapChainLayoutInitd, m_SwapChainIndex, maxFramesInFlight,
                    destroyedInUse, otherVars >>

\* ShaderProj::Shutdown, after the message loop has ended
Shutdown ==
    /\ pc = "shutdown"
    /\ pc' = "done"
    /\ inFlight' = WaitIdle(inFlight)
    /\ BackBufferResizing(WaitIdle(inFlight))
    /\ UNCHANGED << programVars, playlistVars, m_BufferLayoutInitd,
                    m_StaticResourcesInitd, poolCreations, windowVars,
                    cmdBuf, gpuContent, m_SwapChainLayoutInitd, m_SwapChainIndex,
                    maxFramesInFlight, m_LoopingFrameIndex, m_FencesSignaled,
                    otherVars >>

WindowSizes == 0 .. 2

\* the images that acquireNextImageKHR hands out while the message loop is
\* followed through the playlist: the presentation engine gives back the
\* image it was given last
AcquiredImages == { 0 }

Next ==
    \/ KeyboardUpdateQ
    \/ \E loadShaders \in BOOLEAN : KeyboardUpdateR(loadShaders)
    \/ KeyboardUpdateLeft
    \/ KeyboardUpdateRight
    \/ KeyboardUpdateSpace
    \/ \E width \in WindowSizes : UpdateWindowSize(width)
    \/ \E fElapsedTimeSeconds \in 1 .. MaxDt : Animate(fElapsedTimeSeconds)
    \/ \E lost \in BOOLEAN : \E index \in AcquiredImages : BeginFrame(lost, index)
    \/ Render
    \/ Present
    \/ Shutdown

Spec == Init /\ [][Next]_vars

(***************************************************************************)
(* SpecSwapChain: the message loop on one program, with a presentation     *)
(* engine that hands out the images of the swap chain in any order.        *)
(***************************************************************************)
InitSwapChain == Main(SingleProject)

NextSwapChain ==
    \/ \E loadShaders \in BOOLEAN : KeyboardUpdateR(loadShaders)
    \/ \E width \in WindowSizes \ { 0 } : UpdateWindowSize(width)
    \/ Animate(1)
    \/ \E lost \in BOOLEAN : \E index \in SwapChainIndices : BeginFrame(lost, index)
    \/ Render
    \/ Present

SpecSwapChain == InitSwapChain /\ [][NextSwapChain]_vars

(***************************************************************************)
(* SpecFrames: the message loop on one program, with frames in flight.     *)
(***************************************************************************)
InitFramesInFlight ==
    \E framesInFlight \in 1 .. MaxFramesInFlight :
        MainFrames(SingleProject, framesInFlight)

NextFrames ==
    \/ \E loadShaders \in BOOLEAN : KeyboardUpdateR(loadShaders)
    \/ \E width \in WindowSizes \ { 0 } : UpdateWindowSize(width)
    \/ Animate(1)
    \/ \E lost \in BOOLEAN : \E index \in AcquiredImages : BeginFrame(lost, index)
    \/ Render
    \/ Present

SpecFrames == InitFramesInFlight /\ [][NextFrames]_vars

(***************************************************************************)
(* SpecProgram: one program, from its description to its binding tables.   *)
(***************************************************************************)
InitProgram ==
    /\ pc = "main"
    /\ description \in Descriptions
    /\ m_Programs = << >>
    /\ m_Script = << >>
    /\ m_ActiveProgram = 0
    /\ m_CurrentDuration = 0
    /\ InitApp
    /\ InitCompileUnused
    /\ InitScriptUnused
    /\ InitFramesUnused

\* main(): a program that loads joins the programs, one that does not is
\* dropped, and without any program main() returns
MainLoad ==
    /\ pc = "main"
    /\ m_Programs' = MainLoadPrograms(<< "prog" >>, << description >>, 1, << >>)
    /\ pc' = IF m_Programs' = << >> THEN "exit" ELSE "loaded"
    /\ UNCHANGED << description, bindings, playlistVars, poolVars, windowVars,
                    gpuVars, swapChainVars, otherVars >>

\* ShaderProj::CreateBuffersAndBindings, as the first Render calls it
CreateBuffersAndBindings ==
    /\ pc = "loaded"
    /\ pc' = "bound"
    /\ m_Images' = CreateImages(poolCreations + 1)
    /\ m_SwapChainFramebuffers' = CreateSwapChainFramebuffers(m_SwapChainFramebuffers)
    /\ poolCreations' = poolCreations + 1
    /\ m_BufferLayoutInitd' = FALSE
    /\ bindings' = AllBindings(m_Images', m_Programs)
    /\ UNCHANGED << description, m_Programs, playlistVars, m_StaticResourcesInitd,
                    windowVars, gpuVars, swapChainVars, otherVars >>

NextProgramSpec ==
    \/ MainLoad
    \/ CreateBuffersAndBindings

SpecProgram == InitProgram /\ [][NextProgramSpec]_vars

(***************************************************************************)
(* SpecCompile: CompileShader on one shader file and the artifact beside   *)
(* it.  A file is whether it exists, its modification time, its contents   *)
(* and whether it can be read; clock is the time of the file system.       *)
(***************************************************************************)
File(time, contents, readable) ==
    [exists |-> TRUE, time |-> time, contents |-> contents, readable |-> readable]

Sources == { "s1", "s2", "bad" }
Preambles == { "p1", "p2" }

\* glslang: what the merged source compiles to; "bad" does not parse
Binary(preambles, contents) == << "spv", preambles, contents >>
Parses(contents) == contents # "bad"

\* ReadFile: whether the file was read, and what was read
ReadFile(file) ==
    IF file.exists /\ file.readable
    THEN [ok |-> TRUE, result |-> file.contents]
    ELSE [ok |-> FALSE, result |-> ""]

\* the mutant of IsCacheValid: an artifact as old as the source is valid
IsCacheValidOrEqual(inputTime, outputTime) == outputTime >= inputTime

\* if (outputTime > inputTime)
IsCacheValid(inputTime, outputTime) == outputTime > inputTime

\* the mutant of OutputSpvBin: the artifact holds the binary of an empty source
OutputSpvBinEmpty(spirv, now) == File(now, Binary("", ""), TRUE)

\* glslang::OutputSpvBin(spirv, outputFile): the artifact file it writes
OutputSpvBin(spirv, now) == File(now, spirv, TRUE)

\* the mutant of ParseFailed: the failed compilation leaves its empty output
\* in the artifact file
ParseFailedWritesArtifact(miss, now) ==
    [miss EXCEPT !.ran = TRUE, !.outputFile = File(now, "", TRUE)]

\* the return of CompileShader where shader->parse or program->link fails
ParseFailed(miss, now) == [miss EXCEPT !.ran = TRUE]

\* CompileShader: the result, the output, whether the compiler ran and the
\* artifact file the call leaves
CompileShaderResult(source, artifact, preambles, now) ==
    LET miss == [ok |-> FALSE, hit |-> FALSE, ran |-> FALSE, output |-> "",
                 outputFile |-> artifact]
        cached == ReadFile(artifact)
        contents == ReadFile(source)
    IN  IF ~source.exists THEN miss
        ELSE IF /\ artifact.exists
                /\ IsCacheValid(source.time, artifact.time)
                /\ cached.ok
        THEN [miss EXCEPT !.ok = TRUE, !.hit = TRUE, !.output = cached.result]
        ELSE IF ~contents.ok THEN miss
        ELSE IF ~Parses(contents.result) THEN ParseFailed(miss, now)
        ELSE [miss EXCEPT !.ok = TRUE, !.ran = TRUE,
                          !.output = Binary(preambles, contents.result),
                          !.outputFile =
                              OutputSpvBin(Binary(preambles, contents.result), now)]

InitCompile ==
    /\ pc = "compile"
    /\ description = NoDescription
    /\ m_Programs = << >>
    /\ m_Script = << >>
    /\ m_ActiveProgram = 0
    /\ m_CurrentDuration = 0
    /\ InitApp
    /\ shaderFile \in { NoFile } \cup { File(0, c, TRUE) : c \in Sources }
    /\ outputFile = NoFile
    /\ clock = 0
    /\ compiled = NotCompiled
    /\ InitScriptUnused
    /\ InitFramesUnused

appVars ==
    << programVars, playlistVars, poolVars, windowVars, gpuVars, swapChainVars,
       resourceVars, scriptVars, shaderVars, mainVars >>

\* the user saves the shader file, or puts a copy in its place that keeps an
\* earlier modification time
WriteShaderFile(contents, time) ==
    /\ shaderFile' = File(time, contents, shaderFile.exists => shaderFile.readable)
    /\ UNCHANGED << pc, appVars, outputFile, clock, compiled >>

\* the user makes the shader file unreadable or readable again
ChmodShaderFile ==
    /\ shaderFile.exists
    /\ shaderFile' = [shaderFile EXCEPT !.readable = ~@]
    /\ UNCHANGED << pc, appVars, outputFile, clock, compiled >>

\* the user makes the artifact unreadable or readable again
ChmodOutputFile ==
    /\ outputFile.exists
    /\ outputFile' = [outputFile EXCEPT !.readable = ~@]
    /\ UNCHANGED << pc, appVars, shaderFile, clock, compiled >>

RemoveOutputFile ==
    /\ outputFile.exists
    /\ outputFile' = NoFile
    /\ UNCHANGED << pc, appVars, shaderFile, clock, compiled >>

\* the time of the file system advances
Tick ==
    /\ clock < MaxClock
    /\ clock' = clock + 1
    /\ UNCHANGED << pc, appVars, shaderFile, outputFile, compiled >>

\* what a call of CompileShader on the shader file leaves in compiled:
\* the arguments and the files of the call, its result, and what the
\* CompileShaders that made the call returned
Compiled(r, preambles, programOk) ==
    [called |-> TRUE, preambles |-> preambles,
     shaderFile |-> shaderFile, outputFile |-> outputFile,
     ok |-> r.ok, hit |-> r.hit, ran |-> r.ran, output |-> r.output,
     programOk |-> programOk]

\* the programs that CompileShaders is called on: a pass is "file", the
\* pass whose shader is the shader file, or the result of CompilePassShader
\* for a pass with a shader of its own
PassLists ==
    { << "file" >> }
    \cup { << "file", other >> : other \in { "ok", "fails" } }
    \cup { << other, "file" >> : other \in { "ok", "fails" } }

\* the loop of ShProgram::CompileShaders from pass k on: the first pass that
\* fails ends it; r is the call of CompileShader on the shader file, none
\* as long as the loop has not come to that pass
NotReached == [reached |-> FALSE]
RECURSIVE CompileShadersFrom(_, _, _, _)
CompileShadersFrom(passes, k, preambles, r) ==
    IF k > Len(passes) THEN [ok |-> TRUE, r |-> r]
    ELSE IF passes[k] = "file"
    THEN LET call == CompileShaderResult(shaderFile, outputFile, preambles, clock) IN
         IF ~call.ok
         THEN [ok |-> FALSE, r |-> [reached |-> TRUE, call |-> call]]
         ELSE CompileShadersFrom(passes, k + 1, preambles,
                                 [reached |-> TRUE, call |-> call])
    ELSE IF passes[k] = "fails" THEN [ok |-> FALSE, r |-> r]
    ELSE CompileShadersFrom(passes, k + 1, preambles, r)

\* ShProgram::CompileShaders on a program with the passes of passes, every
\* pass through ShRenderpass::CompilePassShader
CompileShaders(preambles, passes) ==
    LET p == CompileShadersFrom(passes, 1, preambles, NotReached) IN
    /\ compiled' = IF p.r.reached
                   THEN Compiled(p.r.call, preambles, p.ok)
                   ELSE [NotCompiled EXCEPT !.programOk = p.ok]
    /\ outputFile' = IF p.r.reached THEN p.r.call.outputFile ELSE outputFile
    /\ UNCHANGED << pc, appVars, shaderFile, clock >>

NextCompile ==
    \/ \E contents \in Sources, time \in 0 .. clock : WriteShaderFile(contents, time)
    \/ ChmodShaderFile
    \/ ChmodOutputFile
    \/ RemoveOutputFile
    \/ Tick
    \/ \E preambles \in Preambles, passes \in PassLists :
          CompileShaders(preambles, passes)

SpecCompile == InitCompile /\ [][NextCompile]_vars

(***************************************************************************)
(* The properties.  A frame is examined where Render has recorded it and   *)
(* Present has not yet submitted it: cmdBuf is the frame, gpuLayout and    *)
(* gpuContent are the images as the frames before it leave them.           *)
(***************************************************************************)
Recorded == pc = "present"

\* the commands of the recorded frame with operation op
Commands(op) == { n \in 1 .. Len(cmdBuf) : cmdBuf[n].op = op }

\* the state and the content of image when command n of the frame starts
LayoutBefore(n, image) == Exec(Gpu(gpuLayout, gpuContent), cmdBuf, n - 1).layout[image]
ContentBefore(n, image) == Exec(Gpu(gpuLayout, gpuContent), cmdBuf, n - 1).content[image]
LayoutAfter(n, image) == Exec(Gpu(gpuLayout, gpuContent), cmdBuf, n).layout[image]

\* the barriers of the frame on the pool images and the placeholder images
PoolBarriers == { n \in Commands("barrier") : cmdBuf[n].image \notin SwapChainImages }

\* C1: in every recorded frame each barrier on a pool image or a placeholder
\* image names as its before state the
\* state in which the frames and commands before it leave its image; each
\* pass starts (the barrier to RenderTarget) and ends (the barrier back)
\* with every pool image in ShaderResource, and draws with its target in
\* RenderTarget and every other pool image in ShaderResource.
C1_BarriersMatch ==
    Recorded =>
        /\ \A n \in PoolBarriers :
              /\ cmdBuf[n].before = LayoutBefore(n, cmdBuf[n].image)
              /\ cmdBuf[n].after = "RenderTarget" =>
                    \A s \in PoolSlots : LayoutBefore(n, s) = "ShaderResource"
              /\ cmdBuf[n].before = "RenderTarget" =>
                    \A s \in PoolSlots : LayoutAfter(n, s) = "ShaderResource"
        /\ \A n \in Commands("draw") :
              \A s \in PoolSlots :
                 LayoutBefore(n, s) =
                    IF s = cmdBuf[n].image THEN "RenderTarget" ELSE "ShaderResource"

\* a frame of a pool that was created again: it starts with the clear of
\* pool image 0 from Undefined and goes on to draw a pass
C1_Witness ==
    /\ Recorded
    /\ poolCreations >= 2
    /\ cmdBuf[1] = ImageBarrier(0, "Undefined", "TransferDst")
    /\ Commands("draw") # { }

\* the passes of the one program of SpecProgram and their indices
BoundPasses == m_Programs[1].m_Passes
PassIndices == 0 .. (Len(BoundPasses) - 1)

\* the passes whose output id is id
Producers(id) == { q \in PassIndices : BoundPasses[q + 1].m_OutputId = id }
FirstProducer(id) == CHOOSE q \in Producers(id) : \A r \in Producers(id) : q <= r

\* the inputs of pass i that are of type buffer and name the output of a pass
ResolvableInputs(i) ==
    LET inputs == BoundPasses[i + 1].m_Declaration.inputs IN
    { inputs[k] : k \in { j \in 1 .. Len(inputs) :
                            /\ inputs[j].type = "buffer"
                            /\ Producers(inputs[j].id) # { } } }

RenderStep == pc = "render" /\ pc' = "present"
LastParity(frameIndex) == (frameIndex - 1) % c_HistoryLength

\* the parity that the recorded frame draws and composites with
DrawnParities(cmds) ==
    { cmds[n].frame : n \in { k \in 1 .. Len(cmds) : cmds[k].op = "draw" } }
    \cup { cmds[n].image % c_HistoryLength :
             n \in { k \in 1 .. Len(cmds) : cmds[k].op = "blit" } }

\* C3 as stated: any two consecutively rendered frames use different
\* parities, whether or not the frame counter was reset between them.
C3_AlwaysAlternates ==
    [][RenderStep /\ m_FrameIndex > 0 =>
          LastParity(m_FrameIndex') # LastParity(m_FrameIndex)]_vars

\* C3: every pass and the composite of a frame use the parity (frame counter
\* mod 2) of the counter the frame submits as iFrame; a frame rendered
\* without a reset uses the other parity than the frame before it, and a
\* frame rendered with a reset uses parity 0, whatever the frame before used.
C3_AlternatesUnlessReset ==
    [][RenderStep =>
          /\ DrawnParities(cmdBuf') = { LastParity(m_FrameIndex') }
          /\ \A n \in 1 .. Len(cmdBuf') :
                cmdBuf'[n].op = "updateBuffer" =>
                    cmdBuf'[n].iFrame % c_HistoryLength = LastParity(m_FrameIndex')
          /\ (m_FrameIndex > 0 /\ ~m_ResetRequired) =>
                LastParity(m_FrameIndex') # LastParity(m_FrameIndex)
          /\ m_ResetRequired => LastParity(m_FrameIndex') = 0]_vars

\* a frame of parity 0 recorded after a single frame of parity 0: its pass
\* draws into the image of parity 0 again, which the frame before has drawn,
\* while the image of parity 1 of that pass is still as it was cleared
C3_Witness ==
    /\ Recorded
    /\ \E n \in Commands("draw") :
          /\ cmdBuf[n].frame = 0
          /\ gpuContent[cmdBuf[n].image] \notin { "undefined", "cleared" }
          /\ gpuContent[cmdBuf[n].image + 1] = "cleared"

\* the modification times that decide the cache, as the claim states them
C4_HitExpected(source, artifact) ==
    /\ source.exists
    /\ artifact.exists
    /\ artifact.readable
    /\ artifact.time > source.time

\* C4: a call of CompileShader on an existing shader file returns the stored
\* artifact, successfully and without running the compiler, if and only if
\* the artifact exists, can be read and has a modification time strictly
\* greater than that of the shader file; what a hit returns is the contents
\* of the artifact, whatever the shader file contains and whatever preamble
\* the call passes.
C4_CacheHit ==
    compiled.called =>
        /\ compiled.hit <=> C4_HitExpected(compiled.shaderFile, compiled.outputFile)
        /\ compiled.hit =>
              /\ compiled.ok
              /\ ~compiled.ran
              /\ compiled.output = compiled.outputFile.contents
        /\ (~compiled.hit /\ compiled.ok) =>
              /\ compiled.ran
              /\ compiled.output =
                    Binary(compiled.preambles, compiled.shaderFile.contents)

\* a hit that returns an artifact built from another source and preamble
\* than those of the call
C4_Witness ==
    /\ compiled.called
    /\ compiled.hit
    /\ compiled.shaderFile.readable
    /\ Parses(compiled.shaderFile.contents)
    /\ compiled.output # Binary(compiled.preambles, compiled.shaderFile.contents)
    /\ compiled.output[2] # compiled.preambles
    /\ compiled.output[3] # compiled.shaderFile.contents

\* a call that finds the artifact exactly as old as the shader file
C4_WitnessEqualTimes ==
    /\ compiled.called
    /\ compiled.outputFile.exists
    /\ compiled.outputFile.readable
    /\ compiled.outputFile.time = compiled.shaderFile.time
    /\ ~compiled.hit

\* the image nodes of the description
ImageNodes ==
    { k \in 1 .. Len(description.renderpass) : description.renderpass[k].type = "image" }

\* C5 as stated: a program is loaded and played only if its description has
\* exactly one node of type image.
C5_ExactlyOneImageNode ==
    pc \in { "loaded", "bound" } => Cardinality(ImageNodes) = 1

\* the steps that advance the playlist: the LEFT and RIGHT keys, and the
\* step of Animate that finds the duration of the entry exceeded
ManualAdvanceStep == KeyboardUpdateLeft \/ KeyboardUpdateRight
AutoAdvanceStep ==
    /\ pc = "animate"
    /\ pc' = "begin"
    /\ ~m_Paused
    /\ m_CurrentDuration > 0
    /\ m_CurrentTime' > m_CurrentDuration

\* C6 as stated: every manual or automatic advance of the playlist leaves
\* the elapsed time and the frame counter at zero.
C6_AdvanceResets ==
    [][(ManualAdvanceStep \/ AutoAdvanceStep) =>
          (m_CurrentTime' = 0 /\ m_FrameIndex' = 0)]_vars

C8_EntrySelected ==
    /\ m_ScriptIndex \in 0 .. (Len(m_Script) - 1)
    /\ m_ActiveProgram = m_Script[m_ScriptIndex + 1].programIndex
    /\ m_CurrentDuration = m_Script[m_ScriptIndex + 1].duration

\* C8: with a playlist that is not empty, in every state from SetScript on
\* m_ScriptIndex is the index of an entry, m_ActiveProgram is the program
\* index of that entry and m_CurrentDuration its duration; NextProgram (the
\* RIGHT key and the automatic advance) moves from the last entry to entry 0
\* and otherwise one entry on, PreviousProgram (the LEFT key) moves from
\* entry 0 to the last entry and otherwise one entry back, and PreviousProgram
\* after NextProgram gives the index back.
C8_PlaylistIndex ==
    [][m_Script # << >> =>
          LET size == Len(m_Script)
              last == size - 1
          IN  /\ C8_EntrySelected
              /\ C8_EntrySelected'
              /\ (KeyboardUpdateRight \/ AutoAdvanceStep) =>
                    m_ScriptIndex' = IF m_ScriptIndex = last THEN 0
                                     ELSE m_ScriptIndex + 1
              /\ KeyboardUpdateLeft =>
                    m_ScriptIndex' = IF m_ScriptIndex = 0 THEN last
                                     ELSE m_ScriptIndex - 1
              /\ \A i \in 0 .. last :
                    PreviousIndex(NextIndex(i, size), size) = i]_vars

\* the playlist of three entries after NextProgram has wrapped from the last
\* entry to entry 0 with the time of the last entry still accumulated
C8_Witness ==
    /\ Len(m_Script) = 3
    /\ m_ScriptIndex = 0
    /\ m_ResetRequired
    /\ m_FrameIndex > 0
    /\ pc = "begin"
    /\ m_CurrentTime > m_Script[3].duration
    /\ m_CurrentTime - m_CurrentTimeDelta <= m_Script[3].duration
    /\ C8_EntrySelected

\* the factor of the composite of the recorded frame and the time of the frame
BlitFactors == { cmdBuf[n].factor : n \in Commands("blit") }
FrameTimes == { cmdBuf[n].iTime : n \in Commands("updateBuffer") }

\* C9: the frame composites with one factor, which as a fraction of
\* transitionTime lies in [0, 1]; with a positive duration D it is
\* min(t, D - t) / transitionTime clamped to [0, 1] for the elapsed time t
\* that the frame submits, and it is 1 when D > 2 transitionTime and
\* transitionTime <= t <= D - transitionTime.
C9_CrossfadeFactor ==
    Recorded =>
        /\ Cardinality(BlitFactors) = 1
        /\ FrameTimes = { m_CurrentTime }
        /\ \A factor \in BlitFactors :
              LET t == m_CurrentTime
                  D == m_CurrentDuration
                  x == IF t < D - t THEN t ELSE D - t
              IN  /\ 0 <= factor
                  /\ factor <= transitionTime
                  /\ D > 0 =>
                        factor = IF x < 0 THEN 0
                                 ELSE IF x > transitionTime THEN transitionTime
                                 ELSE x
                  /\ ( /\ D > 2 * transitionTime
                       /\ transitionTime <= t
                       /\ t <= D - transitionTime ) => factor = transitionTime

\* a frame strictly inside the plateau of an entry longer than two windows
C9_Witness ==
    /\ Recorded
    /\ m_CurrentDuration > 2 * transitionTime
    /\ transitionTime < m_CurrentTime
    /\ m_CurrentTime < m_CurrentDuration - transitionTime
    /\ BlitFactors = { transitionTime }

\* a frame inside the fade, with a factor strictly between 0 and 1
C9_WitnessFade ==
    /\ Recorded
    /\ m_CurrentDuration > 0
    /\ \E factor \in BlitFactors : 0 < factor /\ factor < transitionTime

\* the pool images that a draw of the recorded frame samples
Sampled(n) ==
    { cmdBuf[n].views[c].slot : c \in { d \in Channels : cmdBuf[n].views[d].kind = "pool" } }

\* C10 as stated, in its consequence: no pass of a frame samples content
\* that a pass of another program has drawn.
C10_NeverSamplesOtherProgram ==
    Recorded =>
        \A n \in Commands("draw") : \A s \in Sampled(n) :
            ContentBefore(n, s) \in { "cleared", cmdBuf[n].program }

\* the pool images that the commands cmds clear, and whether every clear of
\* cmds comes before every draw
ClearedBy(cmds) ==
    { cmds[n].image : n \in { k \in 1 .. Len(cmds) : cmds[k].op = "clear" } } \cap PoolSlots
ClearsFirst(cmds) ==
    \A n, k \in 1 .. Len(cmds) :
        (cmds[n].op = "clear" /\ cmds[k].op \in { "draw", "blit" }) => n < k

\* C10: the frame that Render records when the pool images do not exist
\* (the first frame, and the first frame after a resize, a lost swap chain
\* or a successful hot reload) creates them and clears every one of them
\* before any pass; every other frame clears no pool image, also the first
\* frame after a program switch; and no pass samples or composites a pool
\* image whose content is undefined.
C10_ClearedWhenCreated ==
    [][RenderStep =>
          /\ m_Images[0] = 0 => (ClearedBy(cmdBuf') = PoolSlots /\ ClearsFirst(cmdBuf'))
          /\ m_Images[0] # 0 => ClearedBy(cmdBuf') = { }
          /\ \A n \in 1 .. Len(cmdBuf') :
                cmdBuf'[n].op \in { "draw", "blit" } =>
                    \A c \in Channels :
                        cmdBuf'[n].views[c].kind = "pool" =>
                            Exec(Gpu(gpuLayout', gpuContent'), cmdBuf', n - 1)
                                .content[cmdBuf'[n].views[c].slot] # "undefined"]_vars

\* the first frame after a program switch: it clears nothing, and its pass
\* samples what a pass of the program before has drawn
C10_Witness ==
    /\ Recorded
    /\ m_FrameIndex = 1
    /\ Commands("clear") = { }
    /\ \E n \in Commands("draw") : \E s \in Sampled(n) :
          ContentBefore(n, s) \notin { "undefined", "cleared", cmdBuf[n].program }

(***************************************************************************)
(* C11: the state that the composite declares for the swap-chain image.    *)
(***************************************************************************)
\* the first barrier of the recorded frame on a swap-chain image
FirstSwapChainBarrier ==
    CHOOSE n \in Commands("barrier") :
        /\ cmdBuf[n].image \in SwapChainImages
        /\ \A k \in Commands("barrier") : cmdBuf[k].image \in SwapChainImages => n <= k

\* C11: in every recorded frame the first barrier of the composite on the
\* swap-chain image declares Present exactly when that image of the current
\* swap chain has been rendered to and presented, which leaves it in
\* Present on the device, and Undefined exactly when it has not been used
\* since the swap chain was created.
C11_DeclaredStateIsActual ==
    Recorded =>
        LET barrier == cmdBuf[FirstSwapChainBarrier] IN
        /\ barrier.image = GetSwapChainImage(m_SwapChainIndex)
        /\ barrier.before = "Present" <=> gpuLayout[barrier.image] = "Present"
        /\ barrier.before = "Undefined" <=> gpuLayout[barrier.image] = "Undefined"

(***************************************************************************)
(* C12: a buffer input that names the output of no pass.                   *)
(***************************************************************************)
\* the inputs of pass i that are of type buffer and name the output of no pass
UnresolvedInputs(i) ==
    LET inputs == BoundPasses[i + 1].m_Declaration.inputs IN
    { inputs[k] : k \in { j \in 1 .. Len(inputs) :
                            /\ inputs[j].type = "buffer"
                            /\ Producers(inputs[j].id) = { } } }

\* the passes of the program when input node is taken out of pass i
WithoutInput(i, node) ==
    LET inputs == BoundPasses[i + 1].m_Declaration.inputs
        kept == SelectSeq(inputs, LAMBDA n : n # node)
    IN  [BoundPasses EXCEPT ![i + 1].m_Declaration.inputs = kept]

CompileStep ==
    /\ compiled' # compiled
    /\ compiled'.called

\* C13: whenever CompileShader runs the compiler on a shader file that does
\* not parse, the call fails, the artifact file is after the call what it
\* was before it (absent if it was absent, the stale one if there was one),
\* and the CompileShaders that made the call returns false.
C13_FailureKeepsArtifact ==
    [][(CompileStep /\ compiled'.ran /\ ~Parses(shaderFile.contents)) =>
          /\ ~compiled'.ok
          /\ outputFile' = outputFile
          /\ ~compiled'.programOk]_vars

\* a failed compilation beside a stale artifact that is still there
C13_Witness ==
    /\ compiled.called
    /\ compiled.ran
    /\ ~compiled.ok
    /\ ~Parses(compiled.shaderFile.contents)
    /\ ~compiled.programOk
    /\ compiled.outputFile.exists
    /\ outputFile = compiled.outputFile

\* the first call: a shader file that can be read and parses, no artifact
FirstCall ==
    /\ CompileStep
    /\ shaderFile.readable
    /\ Parses(shaderFile.contents)
    /\ ~outputFile.exists

\* what the claim says of the first call: the compiler runs, the call
\* returns the binary and writes it into a new artifact file
FirstCallCompiles ==
    LET spirv == Binary(compiled'.preambles, shaderFile.contents) IN
    /\ compiled'.ok
    /\ compiled'.ran
    /\ compiled'.output = spirv
    /\ outputFile' = File(clock, spirv, TRUE)

\* the second call: the call before it was a first call, and the shader
\* file and the artifact are as that call left them
SecondCall ==
    /\ CompileStep
    /\ compiled.called
    /\ compiled.ok
    /\ compiled.ran
    /\ ~compiled.outputFile.exists
    /\ shaderFile = compiled.shaderFile
    /\ outputFile.exists
    /\ outputFile.readable
    /\ outputFile.contents = compiled.output

\* C14 as stated: the first call compiles and writes the artifact, and the
\* second call with the shader file unchanged is a cache hit that does not
\* run the compiler and returns the binary of the first call.
C14_SecondCallHits ==
    [][/\ FirstCall => FirstCallCompiles
       /\ SecondCall =>
             /\ compiled'.hit
             /\ ~compiled'.ran
             /\ compiled'.output = compiled.output]_vars

\* C14, amended: the first call compiles and writes the artifact with the
\* time of the call; the second call with the shader file unchanged is a
\* cache hit that returns the binary of the first call exactly when that
\* time is later than the modification time of the shader file; when the
\* two times are equal it runs the compiler again, writes the artifact
\* again, and returns the same binary only if it is given the same
\* preambles.
C14_SecondCallHitsIfNewer ==
    [][/\ FirstCall => FirstCallCompiles
       /\ SecondCall =>
             IF outputFile.time > shaderFile.time
             THEN /\ compiled'.hit
                  /\ ~compiled'.ran
                  /\ compiled'.ok
                  /\ compiled'.output = compiled.output
                  /\ outputFile' = outputFile
             ELSE /\ outputFile.time = shaderFile.time
                  /\ ~compiled'.hit
                  /\ compiled'.ran
                  /\ compiled'.ok
                  /\ compiled'.output = Binary(compiled'.preambles, shaderFile.contents)
                  /\ compiled'.preambles = compiled.preambles =>
                        compiled'.output = compiled.output
                  /\ outputFile' = File(clock, compiled'.output, TRUE)]_vars

\* a cache hit on the artifact that compiling the unchanged shader file with
\* the preambles of the call has written
C14_Witness ==
    /\ compiled.called
    /\ compiled.hit
    /\ compiled.shaderFile = shaderFile
    /\ compiled.outputFile = outputFile
    /\ compiled.output = Binary(compiled.preambles, shaderFile.contents)

\* a call that compiles again because the artifact of the call before it is
\* as old as the shader file
C14_WitnessEqualTimes ==
    /\ compiled.called
    /\ compiled.ran
    /\ compiled.ok
    /\ compiled.outputFile.exists
    /\ compiled.outputFile.readable
    /\ compiled.outputFile.time = compiled.shaderFile.time
    /\ compiled.outputFile.contents = compiled.output

(***************************************************************************)
(* SpecResource: CreateCommittedImage and CreateCommittedBuffer.  A device *)
(* call yields a handle, 0 when it fails; resources is what the calls made *)
(* so far have returned.                                                   *)
(***************************************************************************)
\* an Image or a Buffer as it is returned: the handle of the object, of its
\* memory and of its view (a Buffer has none), and whether bindImageMemory
\* or bindBufferMemory has bound the memory to the object
Resource(kind, handle, deviceMemory, imageView, bound) ==
    [kind |-> kind, handle |-> handle, deviceMemory |-> deviceMemory,
     imageView |-> imageView, bound |-> bound]

\* CreateCommittedImage, given what createImage, allocateMemory and
\* createImageView return
CreateCommittedImage(createImage, allocateMemory, createImageView) ==
    IF createImage = 0
    THEN Resource("image", 0, 0, 0, FALSE)
    ELSE IF allocateMemory = 0
    THEN Resource("image", createImage, 0, 0, FALSE)
    ELSE Resource("image", createImage, allocateMemory, createImageView, TRUE)

\* CreateCommittedBuffer, given what createBuffer and allocateMemory return
CreateCommittedBuffer(createBuffer, allocateMemory) ==
    IF createBuffer = 0
    THEN Resource("buffer", 0, 0, 0, FALSE)
    ELSE IF allocateMemory = 0
    THEN Resource("buffer", createBuffer, 0, 0, FALSE)
    ELSE Resource("buffer", createBuffer, allocateMemory, 0, TRUE)

\* what a device call can return for the next resource: null or a new handle
DeviceResults == { 0, Len(resources) + 1 }

InitResource ==
    /\ pc = "resources"
    /\ description = NoDescription
    /\ m_Programs = << >>
    /\ m_Script = << >>
    /\ m_ActiveProgram = 0
    /\ m_CurrentDuration = 0
    /\ InitApp
    /\ InitCompileUnused
    /\ InitScriptUnused
    /\ InitFramesUnused

CreateImage(createImage, allocateMemory, createImageView) ==
    /\ Len(resources) < MaxResources
    /\ resources' = Append(resources,
                       CreateCommittedImage(createImage, allocateMemory, createImageView))
    /\ UNCHANGED << pc, programVars, playlistVars, poolVars, windowVars, gpuVars,
                    swapChainVars, compileVars, scriptVars, shaderVars, mainVars >>

CreateBuffer(createBuffer, allocateMemory) ==
    /\ Len(resources) < MaxResources
    /\ resources' = Append(resources, CreateCommittedBuffer(createBuffer, allocateMemory))
    /\ UNCHANGED << pc, programVars, playlistVars, poolVars, windowVars, gpuVars,
                    swapChainVars, compileVars, scriptVars, shaderVars, mainVars >>

NextResource ==
    \/ \E createImage \in DeviceResults, allocateMemory \in DeviceResults,
          createImageView \in DeviceResults :
          CreateImage(createImage, allocateMemory, createImageView)
    \/ \E createBuffer \in DeviceResults, allocateMemory \in DeviceResults :
          CreateBuffer(createBuffer, allocateMemory)

SpecResource == InitResource /\ [][NextResource]_vars

\* a resource with every step done: the object, its memory, the binding
\* and, for an image, the view
Complete(resource) ==
    /\ resource.handle # 0
    /\ resource.deviceMemory # 0
    /\ resource.bound
    /\ resource.kind = "image" => resource.imageView # 0

\* C15: every resource that CreateCommittedImage or CreateCommittedBuffer
\* has returned is complete or has a null handle.
C15_NullHandleUnlessComplete ==
    \A k \in 1 .. Len(resources) :
        Complete(resources[k]) \/ resources[k].handle = 0

(***************************************************************************)
(* C16: the life of the pool images.  The image in pool slot s exists on   *)
(* the device while gpuLayout[s] is not "None"; its handle is m_Images[s]. *)
(***************************************************************************)
\* C16: in every step and for every pool slot, a handle is set to a new
\* image only where the handle is null and no image of the slot is left on
\* the device, and the new handle has never been used before; an image
\* leaves the device only together with its live handle, which becomes
\* null, and a live handle becomes null only together with its image; a
\* handle is live exactly while its image is on the device; and once
\* Shutdown is done every handle is null and no pool image is left.
C16_DestroyedExactlyOnce ==
    [][\A s \in PoolSlots :
          /\ (m_Images'[s] # m_Images[s] /\ m_Images'[s] # 0) =>
                /\ m_Images[s] = 0
                /\ gpuLayout[s] = "None"
                /\ m_Images'[s] = poolCreations'
                /\ poolCreations' = poolCreations + 1
          /\ (gpuLayout[s] # "None" /\ gpuLayout'[s] = "None") =>
                (m_Images[s] # 0 /\ m_Images'[s] = 0)
          /\ (m_Images[s] # 0 /\ m_Images'[s] = 0) =>
                (gpuLayout[s] # "None" /\ gpuLayout'[s] = "None")
          /\ (m_Images'[s] # 0) <=> (gpuLayout'[s] # "None")
          /\ pc' = "done" => (m_Images'[s] = 0 /\ gpuLayout'[s] = "None")]_vars

\* after Shutdown, in a run that has created the pool images, destroyed
\* them, created them again and destroyed them again
C16_Witness ==
    /\ pc = "done"
    /\ poolCreations >= 2
    /\ \A s \in PoolSlots : m_Images[s] = 0 /\ gpuLayout[s] = "None"

(***************************************************************************)
(* SpecScript: main() from the script file to the playlist.  An element of *)
(* the array in the script file is a string, an object with the members    *)
(* "program" and "duration", or a value of another type; durations are in  *)
(* ticks of 0.25 s.                                                        *)
(***************************************************************************)
\* the "duration" of an element: whether it is there and numeric, and its value
JsonDuration(numeric, value) == [numeric |-> numeric, value |-> value]
NoDuration == JsonDuration(FALSE, 0)

JsonString(name) == [type |-> "string", program |-> name, duration |-> NoDuration]
JsonObject(name, duration) == [type |-> "object", program |-> name, duration |-> duration]
JsonNumber == [type |-> "number", program |-> "", duration |-> NoDuration]
JsonNull == [type |-> "null", program |-> "", duration |-> NoDuration]

ProgramNames == { "foo", "bar" }

JsonElements ==
    { JsonString(name) : name \in ProgramNames }
    \cup { JsonObject(name, duration) :
             name \in ProgramNames, duration \in { NoDuration, JsonDuration(TRUE, 20) } }
    \cup { JsonNumber, JsonNull }

\* the script files: one that cannot be opened or parsed, and the arrays
ScriptFiles ==
    { NoScriptFile }
    \cup { [opened |-> TRUE, root |-> root] : root \in SeqsUpTo(JsonElements, MaxScriptLen) }

\* the mutant of LoadScriptNodes: an element of another type ends the loop
RECURSIVE LoadScriptNodesUntilOther(_, _, _)
LoadScriptNodesUntilOther(root, k, script) ==
    IF k > Len(root) THEN script
    ELSE LET node == root[k] IN
         IF node.type = "string"
         THEN LoadScriptNodesUntilOther(root, k + 1,
                  Append(script, ScriptEntry(node.program, DefaultDuration)))
         ELSE IF node.type = "object"
         THEN LoadScriptNodesUntilOther(root, k + 1,
                  Append(script,
                      ScriptEntry(node.program,
                          IF node.duration.numeric THEN node.duration.value
                          ELSE DefaultDuration)))
         ELSE script

\* the loop of LoadScript over the elements of root from element k on
RECURSIVE LoadScriptNodes(_, _, _)
LoadScriptNodes(root, k, script) ==
    IF k > Len(root) THEN script
    ELSE LET node == root[k] IN
         IF node.type = "string"
         THEN LoadScriptNodes(root, k + 1,
                  Append(script, ScriptEntry(node.program, DefaultDuration)))
         ELSE IF node.type = "object"
         THEN LoadScriptNodes(root, k + 1,
                  Append(script,
                      ScriptEntry(node.program,
                          IF node.duration.numeric THEN node.duration.value
                          ELSE DefaultDuration)))
         ELSE LoadScriptNodes(root, k + 1, script)

\* LoadScript: the result and the script
LoadScript(file) ==
    IF ~file.opened THEN [ok |-> FALSE, script |-> << >>]
    ELSE LET script == LoadScriptNodes(file.root, 1, << >>) IN
         [ok |-> script # << >>, script |-> script]

\* the orders in which the loop of main() over programNames, an
\* unordered_set, can come to the names
NameOrders == { << "foo", "bar" >>, << "bar", "foo" >> }

\* the loop of main() over programNames: the programs whose description
\* is loaded from the project path
LoadedPrograms(order, programNames) ==
    LET loaded == SelectSeq(order, LAMBDA name : name \in programNames \cap projectPath)
        program == Load(BarDescription)
    IN  [k \in 1 .. Len(loaded) |->
            [m_Name |-> loaded[k], m_Passes |-> program.m_Passes,
             m_ImagePassIndex |-> program.m_ImagePassIndex]]

InitScript ==
    /\ pc = "main"
    /\ description = NoDescription
    /\ m_Programs = << >>
    /\ m_Script = << >>
    /\ m_ActiveProgram = 0
    /\ m_CurrentDuration = 0
    /\ InitApp
    /\ InitCompileUnused
    /\ scriptFile \in ScriptFiles
    /\ interval \in 0 .. MaxInterval
    /\ projectPath \in SUBSET ProgramNames
    /\ InitMainUnused
    /\ InitFramesUnused

\* main() from LoadScript to SetScript; order is the order of programNames
\* and loadShaders the result of LoadShaders
MainScript(order, loadShaders) ==
    LET loaded == LoadScript(scriptFile)
        programNames == { loaded.script[k].programName : k \in 1 .. Len(loaded.script) }
        programs == LoadedPrograms(order, programNames)
        script == SetScript(programs, loaded.script, interval)
    IN  /\ pc = "main"
        /\ IF ~loaded.ok \/ programs = << >>
           THEN /\ pc' = "exit"
                /\ UNCHANGED << m_Programs, m_Script, m_ActiveProgram, m_CurrentDuration >>
           ELSE IF ~loadShaders
           THEN /\ pc' = "exit"
                /\ m_Programs' = programs
                /\ UNCHANGED << m_Script, m_ActiveProgram, m_CurrentDuration >>
           ELSE /\ pc' = "ready"
                /\ m_Programs' = programs
                /\ m_Script' = script.m_Script
                /\ m_ActiveProgram' = script.m_ActiveProgram
                /\ m_CurrentDuration' = script.m_CurrentDuration
        /\ UNCHANGED << description, bindings, m_ScriptIndex, m_CurrentTime,
                        m_CurrentTimeDelta, m_FrameIndex, m_Paused, m_ResetRequired,
                        poolVars, windowVars, gpuVars, swapChainVars, otherVars >>

NextScript == \E order \in NameOrders, loadShaders \in BOOLEAN : MainScript(order, loadShaders)

SpecScript == InitScript /\ [][NextScript]_vars

\* the elements of the script file that are a string or an object and name
\* a program that was loaded
IsPlayed(node) ==
    /\ node.type \in { "string", "object" }
    /\ \E p \in 1 .. Len(m_Programs) : m_Programs[p].m_Name = node.program
Played == SelectSeq(scriptFile.root, IsPlayed)

\* the duration that an element declares
Declared(node) ==
    IF node.type = "object" /\ node.duration.numeric
    THEN node.duration.value
    ELSE DefaultDuration

\* C17: when main() has built the playlist, the playlist has one entry for
\* every element of the script file that is a string or an object and names
\* a loaded program, in the order of the file; the entry names the program
\* of the element and its index among the loaded programs, and its duration
\* is what the element declares (1.0 for a string and for an object without
\* a numeric duration) multiplied by the interval; every other element is
\* left out.
C17_PlaylistFromScript ==
    pc = "ready" =>
        /\ Len(m_Script) = Len(Played)
        /\ \A k \in 1 .. Len(m_Script) :
              /\ m_Script[k].programName = Played[k].program
              /\ m_Script[k].programIndex \in 0 .. (Len(m_Programs) - 1)
              /\ m_Programs[m_Script[k].programIndex + 1].m_Name = Played[k].program
              /\ m_Script[k].duration = Declared(Played[k]) * interval
        /\ m_Script # << >>
        /\ m_ActiveProgram = m_Script[1].programIndex
        /\ m_CurrentDuration = m_Script[1].duration

\* the playlist of the script ["foo", {program: bar, duration: 5}] with
\* interval 2: durations 2.0 and 10.0
C17_Witness ==
    /\ pc = "ready"
    /\ scriptFile.root = << JsonString("foo"), JsonObject("bar", JsonDuration(TRUE, 20)) >>
    /\ interval = 2
    /\ Len(m_Script) = 2
    /\ m_Script[1].duration = 2 * DefaultDuration
    /\ m_Script[2].duration = 40

\* a playlist that leaves out an element of another type between two
\* elements that it keeps
C17_WitnessSkipped ==
    /\ pc = "ready"
    /\ Len(scriptFile.root) = 3
    /\ IsPlayed(scriptFile.root[1])
    /\ scriptFile.root[2].type = "null"
    /\ IsPlayed(scriptFile.root[3])
    /\ Len(m_Script) = 2


(***************************************************************************)
(* C18: the passes of a loaded program, in SpecProgram.                    *)
(***************************************************************************)
\* the positions of the buffer nodes of the description, in file order
RECURSIVE BufferNodesFrom(_)
BufferNodesFrom(k) ==
    IF k > Len(description.renderpass) THEN << >>
    ELSE IF description.renderpass[k].type = "buffer"
         THEN << k >> \o BufferNodesFrom(k + 1)
         ELSE BufferNodesFrom(k + 1)

BufferNodes == BufferNodesFrom(1)

\* C18: after a successful Load, the passes of the program are the buffer
\* nodes of the description in file order followed by one pass made of an
\* image node (the last one of the file), wherever that node stands, and the
\* index of the image pass is the number of buffer passes; a description
\* that is a single image node without inputs gives exactly one pass, no
\* buffer pass, and image pass index 0.
C18_PassOrder ==
    pc \in { "loaded", "bound" } =>
        LET program == m_Programs[1]
            passes == program.m_Passes
            image == passes[Len(passes)].m_Declaration
        IN
        /\ Len(m_Programs) = 1
        /\ Len(passes) = Len(BufferNodes) + 1
        /\ \A k \in 1 .. Len(BufferNodes) :
              passes[k] = ShRenderpass(description.renderpass[BufferNodes[k]])
        /\ image.type = "image"
        /\ ImageNodes # {}
        /\ image = description.renderpass[CHOOSE n \in ImageNodes :
                                             \A o \in ImageNodes : o <= n]
        /\ program.m_ImagePassIndex = Len(BufferNodes)
        /\ description.renderpass = << Node("image", "I", << >>) >> =>
              /\ Len(passes) = 1
              /\ program.m_ImagePassIndex = 0

\* a loaded program whose image node stands between two different buffer
\* nodes of the file
C18_Witness ==
    /\ pc = "loaded"
    /\ Len(description.renderpass) = 3
    /\ description.renderpass[1].type = "buffer"
    /\ description.renderpass[2].type = "image"
    /\ description.renderpass[3].type = "buffer"
    /\ description.renderpass[1] # description.renderpass[3]
    /\ m_Programs[1].m_ImagePassIndex = 2
    /\ m_Programs[1].m_Passes[3].m_Declaration = description.renderpass[2]

\* a loaded program whose description is a single image node without inputs
C18_WitnessSingle ==
    /\ pc = "loaded"
    /\ description.renderpass = << Node("image", "I", << >>) >>
    /\ Len(m_Programs[1].m_Passes) = 1
    /\ m_Programs[1].m_ImagePassIndex = 0


(***************************************************************************)
(* C19: what the composite of a frame inside a transition reads.           *)
(***************************************************************************)
\* finalBufferIndex of the recorded frame: the pool slot that the image pass
\* of the active program draws in it
FinalBufferSlots == { cmdBuf[n].image : n \in Commands("blit") }

\* C19 as stated: in a frame whose factor is below 1 the composite reads two
\* pool slots, one of them the slot that the image pass of the current
\* program has drawn in this frame.
C19_CompositeReadsTwoSlots ==
    Recorded =>
        \A n \in Commands("blit") :
            cmdBuf[n].factor < transitionTime =>
                /\ Cardinality(Sampled(n)) = 2
                /\ FinalBufferSlots \subseteq Sampled(n)


(***************************************************************************)
(* SpecShaderObjects: the fragment shader modules, pipelines and           *)
(* framebuffers of the passes, from ShaderProj::Init through the reloads   *)
(* of the R key.  A pass is named by the position of its program in        *)
(* m_Programs and its index in GetPasses(); m_FragmentShader, m_Pipeline   *)
(* and m_Framebuffers are the sets of passes whose member of that name is  *)
(* not null, and deviceFailed the passes for which the device has refused  *)
(* the last creation of a module or of a pipeline.                         *)
(***************************************************************************)
ShaderObjectsProject ==
    Project(<< "foo", "bar" >>, << FooDescription, BarDescription >>,
            << ScriptEntry("foo", DefaultDuration) >>, 0)

PassesOf(p) == { << p, k >> : k \in 0 .. (Len(m_Programs[p].m_Passes) - 1) }
AllPasses == UNION { PassesOf(p) : p \in 1 .. Len(m_Programs) }

\* the order in which the loops over m_Programs and GetPasses() visit passes
Before(a, b) == a[1] < b[1] \/ (a[1] = b[1] /\ a[2] < b[2])

\* the sets of passes on which the device refuses a creation
DeviceFailures == { f \in SUBSET AllPasses : Cardinality(f) <= MaxFailures }

\* ShaderProj::CreateShaderObjects, given the passes whose module the device
\* refuses to create: the loop returns at the first of them, whose module
\* CreateFragmentShader has destroyed; the passes after it are not visited
CreateShaderObjects(fragmentShader, failing) ==
    IF failing = { }
    THEN [ok |-> TRUE, m_FragmentShader |-> AllPasses, failed |-> { }]
    ELSE LET first == CHOOSE f \in failing : \A g \in failing : f = g \/ Before(f, g)
         IN  [ok |-> FALSE,
              m_FragmentShader |->
                  (fragmentShader \cup { q \in AllPasses : Before(q, first) })
                     \ { first },
              failed |-> { first }]

InitShaderObjects ==
    LET programs == MainLoadPrograms(ShaderObjectsProject.names,
                                     ShaderObjectsProject.descriptions, 1, << >>)
        script == SetScript(programs, ShaderObjectsProject.script,
                            ShaderObjectsProject.interval)
    IN  /\ pc = "Init"
        /\ description = NoDescription
        /\ m_Programs = programs
        /\ m_Script = script.m_Script
        /\ m_ActiveProgram = script.m_ActiveProgram
        /\ m_CurrentDuration = script.m_CurrentDuration
        /\ InitApp
        /\ InitCompileUnused
        /\ InitScriptUnused
        /\ InitFramesUnused

\* ShaderProj::Init, whose result main() does not read: when
\* CreateShaderObjects fails it returns before it creates the render passes
ShaderProjInit(failing) ==
    LET r == CreateShaderObjects(m_FragmentShader, failing) IN
    /\ pc = "Init"
    /\ pc' = "Render"
    /\ m_FragmentShader' = r.m_FragmentShader
    /\ m_PassRenderPass' = r.ok
    /\ deviceFailed' = [modules |-> r.failed, pipelines |-> { }]
    /\ UNCHANGED << programVars, playlistVars, poolVars, windowVars, gpuVars,
                    swapChainVars, compileVars, resourceVars, scriptVars,
                    mainVars, m_Pipeline, m_Framebuffers >>

\* the R key with LoadShaders successful: CreateShaderObjects, whose result
\* is not read, and BackBufferResizing
ReloadShaderObjects(failing) ==
    LET r == CreateShaderObjects(m_FragmentShader, failing) IN
    /\ pc = "Loop"
    /\ pc' = "Render"
    /\ MayDestroy
    /\ BackBufferResizing(inFlight)
    /\ m_ResetRequired' = TRUE
    /\ m_FragmentShader' = r.m_FragmentShader
    /\ deviceFailed' = [modules |-> r.failed, pipelines |-> { }]
    /\ UNCHANGED << programVars, m_Script, m_ScriptIndex, m_ActiveProgram,
                    m_CurrentDuration, m_CurrentTime, m_CurrentTimeDelta,
                    m_FrameIndex, m_Paused,
                    m_BufferLayoutInitd, m_StaticResourcesInitd, poolCreations,
                    windowVars, cmdBuf, gpuContent,
                    m_SwapChainLayoutInitd, m_SwapChainIndex,
                    maxFramesInFlight, m_LoopingFrameIndex, m_FencesSignaled,
                    inFlight,
                    compileVars, resourceVars, scriptVars, mainVars,
                    m_Pipeline, m_Framebuffers, m_PassRenderPass >>

\* CreateBuffersAndBindings, as Render calls it when the pool has no images:
\* for every pass of every program the framebuffers and the pipeline are
\* created, and no result is read.  failing are the passes whose pipeline the
\* device refuses; a creation that is handed a null render pass or a null
\* fragment shader module is invalid, and invalidPipelines and
\* invalidFramebuffers are the passes for which it yields a handle all the same
CreatePipelinesAndFramebuffers(failing, invalidPipelines, invalidFramebuffers) ==
    LET Valid(q) == m_PassRenderPass /\ q \in m_FragmentShader IN
    /\ pc = "Render"
    /\ pc' = "Loop"
    /\ m_Images' = CreateImages(poolCreations + 1)
    /\ m_SwapChainFramebuffers' = CreateSwapChainFramebuffers(m_SwapChainFramebuffers)
    /\ poolCreations' = poolCreations + 1
    /\ m_BufferLayoutInitd' = FALSE
    /\ bindings' = AllBindings(m_Images', m_Programs)
    /\ m_Framebuffers' = IF m_PassRenderPass THEN AllPasses ELSE invalidFramebuffers
    /\ m_Pipeline' = { q \in AllPasses :
                          IF Valid(q) THEN q \notin failing ELSE q \in invalidPipelines }
    /\ deviceFailed' = [deviceFailed EXCEPT
                           !.pipelines = { q \in failing : Valid(q) }]
    /\ UNCHANGED << description, m_Programs, playlistVars, m_StaticResourcesInitd,
                    windowVars, gpuVars, swapChainVars,
                    compileVars, resourceVars, scriptVars, mainVars,
                    m_FragmentShader, m_PassRenderPass >>

\* the passes whose pipeline or framebuffers would be created from a null
\* handle
InvalidPipelines ==
    IF m_PassRenderPass THEN AllPasses \ m_FragmentShader ELSE AllPasses
InvalidFramebuffers == IF m_PassRenderPass THEN { } ELSE AllPasses

NextShaderObjects ==
    \/ \E failing \in DeviceFailures : ShaderProjInit(failing)
    \/ \E failing \in DeviceFailures : ReloadShaderObjects(failing)
    \/ \E failing \in DeviceFailures :
          \E invalidPipelines \in SUBSET InvalidPipelines :
             \E invalidFramebuffers \in SUBSET InvalidFramebuffers :
                CreatePipelinesAndFramebuffers(failing, invalidPipelines,
                                               invalidFramebuffers)

SpecShaderObjects == InitShaderObjects /\ [][NextShaderObjects]_vars

\* the programs that have a pass whose module or pipeline the device refused
FailedPrograms ==
    { p \in 1 .. Len(m_Programs) :
         PassesOf(p) \cap (deviceFailed.modules \cup deviceFailed.pipelines) # { } }

\* C20 as stated: when the shader objects and the pipelines have been
\* created and the device has refused the module or the pipeline of a pass
\* of a program, every other program has a shader module, a pipeline and
\* framebuffers for each of its passes.
C20_FailureAffectsOnlyOwner ==
    pc = "Loop" =>
        \A p \in FailedPrograms :
            \A q \in (1 .. Len(m_Programs)) \ FailedPrograms :
                PassesOf(q) \subseteq (m_FragmentShader \cap m_Pipeline \cap m_Framebuffers)


(***************************************************************************)
(* SpecMain: main() from the command line to its return value.  The        *)
(* command line is a sequence of tokens; startup is what the start-up      *)
(* finds: whether every shader compiles and whether Vulkan initializes.    *)
(***************************************************************************)
E_OK == 0
E_CommandLineError == 1
E_NoScript == 2
E_NoPrograms == 3
E_ShaderError == 4
E_VulkanError == 5

HelpFlags == { "-h" }
ValuelessFlags == { "-f" }
ValueFlags == { "-W", "-s" }
Tokens == HelpFlags \cup ValuelessFlags \cup ValueFlags \cup { "foo" }
ArgLists == SeqsUpTo(Tokens, MaxArgs)

CommandLineOptions(ok, shader, errorMessage) ==
    [ok |-> ok, shader |-> shader, errorMessage |-> errorMessage]

\* CommandLineOptions::parse: the loop over the arguments from argument i on
\* (args[i] is argv[i] of the source; argv[0] is not in args)
RECURSIVE parse(_, _, _)
parse(args, i, shader) ==
    IF i > Len(args) THEN CommandLineOptions(TRUE, shader, "")
    ELSE LET arg == args[i] IN
         IF arg \in HelpFlags
         THEN CommandLineOptions(FALSE, shader, "usage")
         ELSE IF arg \in ValueFlags
         THEN IF i + 1 > Len(args)
              THEN CommandLineOptions(FALSE, shader, "expected value")
              ELSE parse(args, i + 2, IF arg = "-s" THEN args[i + 1] ELSE shader)
         ELSE IF arg \in ValuelessFlags
         THEN parse(args, i + 1, shader)
         ELSE CommandLineOptions(FALSE, shader, "unrecognized option")

\* the script files of SpecMain
MainScriptFiles ==
    { NoScriptFile,
      [opened |-> TRUE, root |-> << JsonNull >>],
      [opened |-> TRUE, root |-> << JsonString("foo"), JsonString("bar") >>] }

InitMain ==
    /\ pc = "main"
    /\ description = NoDescription
    /\ m_Programs = << >>
    /\ m_Script = << >>
    /\ m_ActiveProgram = 0
    /\ m_CurrentDuration = 0
    /\ InitApp
    /\ InitCompileUnused
    /\ scriptFile \in MainScriptFiles
    /\ interval = 1
    /\ projectPath \in SUBSET ProgramNames
    /\ argv \in ArgLists
    /\ startup \in [loadShaders : BOOLEAN, initVulkan : BOOLEAN]
    /\ exitCode = NotExited
    /\ InitFramesUnused

\* main() up to RunMessageLoop or to the return before it; order is the
\* order in which the loop over programNames comes to the names
MainStart(order) ==
    LET options == parse(argv, 1, "")
        loaded == IF options.shader = "" THEN LoadScript(scriptFile)
                  ELSE [ok |-> TRUE,
                        script |-> << ScriptEntry(options.shader, DefaultDuration) >>]
        programNames == { loaded.script[k].programName : k \in 1 .. Len(loaded.script) }
        programs == LoadedPrograms(order, programNames)
        script == SetScript(programs, loaded.script, interval)
        code == IF ~options.ok THEN E_CommandLineError
                ELSE IF ~loaded.ok THEN E_NoScript
                ELSE IF programs = << >> THEN E_NoPrograms
                ELSE IF ~startup.loadShaders THEN E_ShaderError
                ELSE IF ~startup.initVulkan THEN E_VulkanError
                ELSE NotExited
    IN  /\ pc = "main"
        /\ exitCode' = code
        /\ pc' = IF code = NotExited THEN "RunMessageLoop" ELSE "exit"
        /\ m_Programs' = IF code \in { E_ShaderError, E_VulkanError, NotExited }
                         THEN programs ELSE m_Programs
        /\ IF code \in { E_VulkanError, NotExited }
           THEN /\ m_Script' = script.m_Script
                /\ m_ActiveProgram' = script.m_ActiveProgram
                /\ m_CurrentDuration' = script.m_CurrentDuration
           ELSE UNCHANGED << m_Script, m_ActiveProgram, m_CurrentDuration >>
        /\ UNCHANGED << description, bindings, m_ScriptIndex, m_CurrentTime,
                        m_CurrentTimeDelta, m_FrameIndex, m_Paused, m_ResetRequired,
                        poolVars, windowVars, gpuVars, swapChainVars,
                        compileVars, resourceVars, scriptVars, shaderVars,
                        argv, startup >>

\* main() from the end of RunMessageLoop to its return
MainReturn ==
    /\ pc = "RunMessageLoop"
    /\ pc' = "exit"
    /\ exitCode' = E_OK
    /\ UNCHANGED << programVars, playlistVars, poolVars, windowVars, gpuVars,
                    swapChainVars, compileVars, resourceVars, scriptVars,
                    shaderVars, argv, startup >>

NextMain ==
    \/ \E order \in NameOrders : MainStart(order)
    \/ MainReturn

SpecMain == InitMain /\ [][NextMain]_vars

\* an argument in the place of a flag that is no flag, or a flag that takes a
\* value and is the last argument, from argument i on
RECURSIVE CommandLineError(_)
CommandLineError(i) ==
    /\ i <= Len(argv)
    /\ \/ argv[i] \notin HelpFlags \cup ValuelessFlags \cup ValueFlags
       \/ argv[i] \in ValueFlags /\ i = Len(argv)
       \/ CommandLineError(IF argv[i] \in ValueFlags THEN i + 2 ELSE i + 1)

\* C21 as stated: main returns 1 only when the command line has an
\* unrecognized flag or a flag without its value, and otherwise the code of
\* the first stage that fails: 2 when no shader is given and the script does
\* not load, 3 when no program loads, 4 when a shader does not compile,
\* 5 when Vulkan does not initialize, and 0 when the run completes.
C21_ExitCodes ==
    pc = "exit" =>
        /\ exitCode = E_CommandLineError => CommandLineError(1)
        /\ exitCode = E_NoScript =>
              parse(argv, 1, "").shader = "" /\ ~LoadScript(scriptFile).ok
        /\ exitCode = E_NoPrograms => m_Programs = << >>
        /\ exitCode = E_ShaderError => m_Programs # << >> /\ ~startup.loadShaders
        /\ exitCode = E_VulkanError =>
              m_Programs # << >> /\ startup.loadShaders /\ ~startup.initVulkan
        /\ exitCode = E_OK => startup.loadShaders /\ startup.initVulkan
        /\ exitCode \in { E_OK, E_CommandLineError, E_NoScript, E_NoPrograms,
                          E_ShaderError, E_VulkanError }


(***************************************************************************)
(* C22: the schedule of a recorded frame.                                  *)
(***************************************************************************)
\* the draws of the recorded frame that execute pass k
DrawsOfPass(k) == { n \in Commands("draw") : cmdBuf[n].pass = k }

\* C22: a recorded frame has one update of the uniform buffer, then one
\* draw for each pass of the active program in the order of the pass list
\* and no other draw, then one composite, which samples pool slot
\* 2 * GetImagePassIndex() + parity, the slot that the image pass has drawn
\* earlier in the frame; every draw and the composite belong to the active
\* program, and the frame counter is one more than the frame number that the
\* uniforms carry.
C22_FrameSchedule ==
    Recorded =>
        LET program == m_Programs[m_ActiveProgram + 1]
            passes == 0 .. (Len(program.m_Passes) - 1)
        IN
        /\ Cardinality(Commands("updateBuffer")) = 1
        /\ Cardinality(Commands("blit")) = 1
        /\ Cardinality(Commands("draw")) = Len(program.m_Passes)
        /\ \A k \in passes : Cardinality(DrawsOfPass(k)) = 1
        /\ \A u \in Commands("updateBuffer"), d \in Commands("draw"),
              b \in Commands("blit") :
              /\ u < d
              /\ d < b
              /\ cmdBuf[d].program = program.m_Name
              /\ cmdBuf[b].program = program.m_Name
              /\ cmdBuf[d].frame = cmdBuf[u].iFrame % c_HistoryLength
              /\ cmdBuf[b].image =
                    c_HistoryLength * program.m_ImagePassIndex + cmdBuf[d].frame
              /\ Sampled(b) = { cmdBuf[b].image }
              /\ d \in DrawsOfPass(program.m_ImagePassIndex) =>
                    cmdBuf[d].image = cmdBuf[b].image
              /\ m_FrameIndex = cmdBuf[u].iFrame + 1
        /\ \A d, e \in Commands("draw") :
              cmdBuf[d].pass < cmdBuf[e].pass => d < e

\* a recorded frame of odd parity of a program of two passes
C22_Witness ==
    /\ Recorded
    /\ Len(m_Programs[m_ActiveProgram + 1].m_Passes) = 2
    /\ \E d \in DrawsOfPass(1), b \in Commands("blit") :
          /\ cmdBuf[d].frame = 1
          /\ cmdBuf[d].image = 3
          /\ cmdBuf[b].image = 3
          /\ d < b


(***************************************************************************)
(* C23: the LEFT and RIGHT keys and the Animate that follows them.         *)
(***************************************************************************)
\* the call of Animate that follows a single press of LEFT or RIGHT, which
\* came when the entry of the last rendered frame was within its duration
AnimateAfterAdvance ==
    /\ pc = "animate"
    /\ pc' = "begin"
    /\ keyEvent.key \in { "LEFT", "RIGHT" }
    /\ ~keyEvent.resetRequired
    /\ keyEvent.currentDuration > 0 => m_CurrentTime <= keyEvent.currentDuration

\* C23 as stated: after such a key press the frame that is rendered next
\* shows the entry one position before (LEFT) or after (RIGHT) the entry of
\* the last rendered frame, circularly; Animate does not move on from it.
C23_KeySelectsNeighbour ==
    [][AnimateAfterAdvance =>
          m_ScriptIndex' =
              (keyEvent.scriptIndex + Len(m_Script)
                  + (IF keyEvent.key = "RIGHT" THEN 1 ELSE -1)) % Len(m_Script)]_vars


(***************************************************************************)
(* C24, C29: frames in flight, in SpecFrames.                              *)
(***************************************************************************)
\* C24 as stated: pool images are never destroyed while a frame that has
\* been submitted and whose fence has not been waited for references them.
C24_DestroyedWhenIdle == ~destroyedInUse


\* the fence slots of the frames that were submitted and not waited for
FramesPending == { slot \in DOMAIN inFlight : inFlight[slot] # NoFrame }

\* the command buffer of the current slot has been begun: BeginFrame has
\* returned and Present has not been called yet
Recording == pc \in { "render", "present" }

\* C29: with maxFramesInFlight + 1 command buffers and fences used in turn,
\* the command buffer that is being recorded belongs to a slot whose last
\* submission has been waited for, and while a frame is recorded at most
\* maxFramesInFlight submitted frames have not been waited for.
C29_FramesInFlight ==
    /\ DOMAIN inFlight = 1 .. (maxFramesInFlight + 1)
    /\ m_LoopingFrameIndex \in 0 .. maxFramesInFlight
    /\ Recording =>
          /\ inFlight[m_LoopingFrameIndex + 1] = NoFrame
          /\ Cardinality(FramesPending) <= maxFramesInFlight

\* a frame is recorded while as many frames as allowed are in flight, the
\* slots having been used more than once
C29_Witness ==
    /\ Recording
    /\ maxFramesInFlight = 2
    /\ Cardinality(FramesPending) = 2
    /\ m_FencesSignaled[m_LoopingFrameIndex + 1]


(***************************************************************************)
(* C25: writes and later reads of the recorded frame.                      *)
(***************************************************************************)
\* the commands of the frame that write pool image slot, and the barriers
\* between commands w and r that satisfy P
ImageWrites(slot) ==
    { n \in Commands("draw") \cup Commands("clear") : cmdBuf[n].image = slot }
ImageBarriersBetween(w, r, slot) ==
    { b \in Commands("barrier") : w < b /\ b < r /\ cmdBuf[b].image = slot }
BufferBarriersBetween(w, r) ==
    { b \in Commands("bufferBarrier") : w < b /\ b < r }

\* C25 as stated: in a recorded frame a barrier stands between every write
\* of a pool image and every later draw that samples it, and a buffer
\* barrier stands between the update of the uniform buffer and every draw of
\* a pass, which reads the uniform buffer.
C25_WriteBarrierRead ==
    Recorded =>
        /\ \A r \in Commands("draw") \cup Commands("blit") :
              \A slot \in Sampled(r) :
                 \A w \in ImageWrites(slot) :
                    w < r => ImageBarriersBetween(w, r, slot) # { }
        /\ \A w \in Commands("updateBuffer") :
              \A r \in Commands("draw") :
                 w < r => BufferBarriersBetween(w, r) # { }


(***************************************************************************)
(* C26: the binding tables of a pass never name its own render target.     *)
(***************************************************************************)
\* the pool slots that the parity-f binding table of pass i names
BoundSlots(i, f) ==
    { bindings[0][i].m_DescriptorSets[f][c].slot :
        c \in { d \in Channels : bindings[0][i].m_DescriptorSets[f][d].kind = "pool" } }

\* C26: once the binding tables exist, for every pass i and parity f no pool
\* slot named by the parity-f binding table of pass i is the slot that pass i
\* renders to at parity f, which is slot 2i + f, whether or not several
\* passes declare the same output id.
C26_InputsAvoidTarget ==
    pc = "bound" =>
        \A i \in PassIndices : \A f \in Parities :
            /\ bindings[0][i].m_RenderTargetIndices[f] = 2 * i + f
            /\ 2 * i + f \notin BoundSlots(i, f)

\* a bound program in which two passes declare the same output id and both
\* read that id: the first of them reads its own output, the second reads
\* the output of the first
C26_Witness ==
    /\ pc = "bound"
    /\ \E i, j \in PassIndices :
          /\ i < j
          /\ BoundPasses[i + 1].m_OutputId = BoundPasses[j + 1].m_OutputId
          /\ \E node \in ResolvableInputs(i) : node.id = BoundPasses[i + 1].m_OutputId
          /\ \E node \in ResolvableInputs(j) : node.id = BoundPasses[j + 1].m_OutputId
          /\ BoundSlots(i, 0) # { }
          /\ BoundSlots(j, 0) # { }


(***************************************************************************)
(* SpecLoad: main() loading one program from a description that may hold   *)
(* more buffer nodes than c_MaxPasses and inputs whose channel is          *)
(* c_MaxPassInputs.                                                        *)
(***************************************************************************)
LoadNodeSet ==
    { Node("buffer", "A", << >>) }
    \cup { Node("image", "I", << Input(c, "buffer", "A", FALSE) >>) :
             c \in {0, c_MaxPassInputs} }

LoadDescriptions ==
    { [opened |-> TRUE, renderpass |-> r] : r \in SeqsUpTo(LoadNodeSet, MaxLoadNodes) }

InitLoad ==
    /\ pc = "main"
    /\ description \in LoadDescriptions
    /\ m_Programs = << >>
    /\ m_Script = << >>
    /\ m_ActiveProgram = 0
    /\ m_CurrentDuration = 0
    /\ InitApp
    /\ InitCompileUnused
    /\ InitScriptUnused
    /\ InitFramesUnused

NextLoad == MainLoad

SpecLoad == InitLoad /\ [][NextLoad]_vars

\* the channels that the inputs of pass i of the loaded program declare
DeclaredChannels(i) ==
    LET inputs == BoundPasses[i + 1].m_Declaration.inputs IN
    { inputs[k].channel : k \in 1 .. Len(inputs) }

\* C28: every program that Load has accepted has, for each pass index i,
\* both pool slots 2i and 2i + 1 inside the pool (2i + 1 < c_RenderImageCount,
\* at most c_MaxPasses + 1 passes), and every channel that an input of a
\* pass declares is one of 0 .. c_MaxPassInputs - 1.
C28_IndicesInBounds ==
    pc = "loaded" =>
        /\ Len(BoundPasses) <= c_MaxPasses + 1
        /\ \A i \in PassIndices :
              /\ 2 * i + 1 < c_RenderImageCount
              /\ DeclaredChannels(i) \subseteq Channels


(***************************************************************************)
(* C30: the elapsed time and the crossfade factor that Render uses.        *)
(***************************************************************************)
\* the factors and the times of the frame that a step of Render records
RenderedFactors == { cmdBuf'[n].factor : n \in { k \in 1 .. Len(cmdBuf') : cmdBuf'[k].op = "blit" } }
RenderedTimes == { cmdBuf'[n].iTime : n \in { k \in 1 .. Len(cmdBuf') : cmdBuf'[k].op = "updateBuffer" } }

\* C30 as stated: Render submits an elapsed time t with 0 <= t <= D when the
\* duration D of the entry is positive, and the first frame rendered after
\* an advance or a hot reload (a reset that is required after a frame has
\* been rendered) has t = 0 and the crossfade factor 0.
C30_FirstFrameFactorZero ==
    [][RenderStep =>
          /\ RenderedTimes = { m_CurrentTime' }
          /\ m_CurrentDuration > 0 =>
                (0 <= m_CurrentTime' /\ m_CurrentTime' <= m_CurrentDuration)
          /\ (m_ResetRequired /\ m_FrameIndex > 0) =>
                (m_CurrentTime' = 0 /\ RenderedFactors = { 0 })]_vars

\* C30: Render submits as iTime the elapsed time t it composites with, and
\* 0 <= t <= D when the duration D of the entry is positive; the first frame
\* rendered after an advance or a hot reload, like the first frame of all,
\* has t = 0, and its crossfade factor is 0 when D is positive and 1 when
\* the entry has no duration.
C30_ElapsedWithinDuration ==
    [][RenderStep =>
          /\ RenderedTimes = { m_CurrentTime' }
          /\ m_CurrentDuration > 0 =>
                (0 <= m_CurrentTime' /\ m_CurrentTime' <= m_CurrentDuration)
          /\ m_ResetRequired =>
                /\ m_CurrentTime' = 0
                /\ RenderedFactors =
                      { IF m_CurrentDuration > 0 THEN 0 ELSE transitionTime }]_vars

\* the first frame of an entry that is not the first of the playlist, after
\* the playlist has advanced: it is recorded with elapsed time 0 and
\* factor 0
C30_Witness ==
    /\ Recorded
    /\ m_FrameIndex = 1
    /\ m_ScriptIndex # 0
    /\ m_CurrentDuration > 0
    /\ FrameTimes = { 0 }
    /\ BlitFactors = { 0 }

\* the first frame after a hot reload or a key of an entry without a
\* duration: elapsed time 0 and factor 1
C30_WitnessNoDuration ==
    /\ Recorded
    /\ m_FrameIndex = 1
    /\ poolCreations >= 2
    /\ m_CurrentDuration = 0
    /\ FrameTimes = { 0 }
    /\ BlitFactors = { transitionTime }

\* a frame recorded at the very end of its entry, without a reset
C30_WitnessEnd ==
    /\ Recorded
    /\ m_FrameIndex > 1
    /\ m_CurrentDuration > 0
    /\ FrameTimes = { m_CurrentDuration }


(***************************************************************************)
(* C27: what the frame that Render records refers to.                      *)
(***************************************************************************)
\* the view of the live pool image in slot, after a step
LiveView(slot) == View("pool", slot, m_Images'[slot])

\* the commands with operation op of the frame that a step records
RecordedCommands(op) == { n \in 1 .. Len(cmdBuf') : cmdBuf'[n].op = op }

\* C27: the frame that Render records refers to live objects only: when the
\* pool images are null, as BackBufferResizing leaves them, Render creates
\* every pool image anew, writes the binding tables of every pass for the
\* new images and creates a framebuffer for every image of the swap chain;
\* every pool image that a pass draw samples, the attachment of the
\* framebuffer it draws to and the image that the composite samples are
\* views of the live image of their slot, and the composite draws to a
\* framebuffer of the acquired image of the swap chain that exists.
C27_RecordsLiveObjects ==
    [][RenderStep =>
          /\ m_Images[0] = 0 =>
                /\ poolCreations' = poolCreations + 1
                /\ \A s \in PoolSlots : m_Images'[s] = poolCreations'
                /\ bindings' = AllBindings(m_Images', m_Programs)
                /\ Len(m_SwapChainFramebuffers') = swapChainImageCount
                /\ cmdBuf'[Len(cmdBuf) + 1].op = "barrier"
                /\ cmdBuf'[Len(cmdBuf) + 1].before = "Undefined"
          /\ \A s \in PoolSlots : m_Images'[s] # 0
          /\ RecordedCommands("draw") # { }
          /\ \A n \in RecordedCommands("draw") :
                /\ cmdBuf'[n].target = LiveView(cmdBuf'[n].image)
                /\ \A c \in Channels :
                      cmdBuf'[n].views[c].kind = "pool" =>
                         cmdBuf'[n].views[c] = LiveView(cmdBuf'[n].views[c].slot)
          /\ Cardinality(RecordedCommands("blit")) = 1
          /\ \A n \in RecordedCommands("blit") :
                /\ cmdBuf'[n].views[0] = LiveView(cmdBuf'[n].image)
                /\ cmdBuf'[n].framebuffer =
                      Framebuffer(GetSwapChainImage(m_SwapChainIndex), TRUE)
                /\ m_SwapChainFramebuffers'[m_SwapChainIndex + 1]
                      = cmdBuf'[n].framebuffer]_vars

\* a frame recorded on pool images that were created again, after the pool
\* images of an earlier frame were destroyed: its pass samples a pool image
C27_Witness ==
    /\ Recorded
    /\ poolCreations >= 2
    /\ m_BufferLayoutInitd
    /\ \E n \in Commands("draw") : \E c \in Channels :
          cmdBuf[n].views[c] = View("pool", cmdBuf[n].views[c].slot, poolCreations)
    /\ \E n \in Commands("blit") : cmdBuf[n].framebuffer.live

=============================================================================
